---- MODULE Spec2Model ----
(***************************************************************************)
(* Ledger consistency model of the personal finance tracker: budget        *)
(* categories, transactions, bulk creation and budget transfers.           *)
(*                                                                         *)
(* Money is a Decimal quantized to 0.01 in the source; here it is the      *)
(* integer count of hundredths.  A date is the tuple <<year, month, day>>. *)
(* A request handler runs in one database session: what it changes is      *)
(* stored when it reaches db.session.commit() and discarded when it        *)
(* returns or raises before that.                                          *)
(***************************************************************************)
EXTENDS Integers, Sequences, FiniteSets, TLC

VARIABLES db, today, last, calendar, sessions

vars == <<db, today, last, calendar, sessions>>

(* ---------------------------------------------------------------------- *)
(* Bounds                                                                  *)
(* ---------------------------------------------------------------------- *)
MaxCategories == 3
MaxTransactions == 2
MaxBalance == 5
MaxBatch == 2
MaxTemplates == 1
MaxSchedule == 5
MaxRecurring == 2
MaxSteps == 12
MaxReconciliations == 2

(* ---------------------------------------------------------------------- *)
(* Users, dates and the clock                                              *)
(* ---------------------------------------------------------------------- *)
Users == {1, 2}

NoCategory == 0

StartDate == <<2024, 4, 20>>
LastMonthDate == <<2024, 3, 31>>
NoDate == <<>>
BadDate == <<2024, 2, 30>>

IsLeap(y) == (y % 4 = 0 /\ y % 100 # 0) \/ y % 400 = 0

monthrange(y, m) ==
    IF m = 2 THEN (IF IsLeap(y) THEN 29 ELSE 28)
    ELSE IF m \in {4, 6, 9, 11} THEN 30 ELSE 31

IsDate(d) ==
    /\ Len(d) = 3
    /\ d[2] \in 1..12
    /\ d[3] \in 1..monthrange(d[1], d[2])

DateLE(a, b) ==
    \/ a[1] < b[1]
    \/ a[1] = b[1] /\ a[2] < b[2]
    \/ a[1] = b[1] /\ a[2] = b[2] /\ a[3] <= b[3]

(* ---------------------------------------------------------------------- *)
(* utils.parse_currency                                                    *)
(* ---------------------------------------------------------------------- *)
Digits == {"0", "1", "2", "3", "4", "5", "6", "7", "8", "9"}

DigitVal(c) ==
    CASE c = "0" -> 0 [] c = "1" -> 1 [] c = "2" -> 2 [] c = "3" -> 3
      [] c = "4" -> 4 [] c = "5" -> 5 [] c = "6" -> 6 [] c = "7" -> 7
      [] c = "8" -> 8 [] c = "9" -> 9

RECURSIVE IntVal(_)
IntVal(s) == IF s = <<>> THEN 0 ELSE 10 * IntVal(SubSeq(s, 1, Len(s) - 1)) + DigitVal(s[Len(s)])

IsKept(c) == c \in Digits \cup {".", "-"}

Cleaned(s) == SelectSeq(s, IsKept)

UnsignedPart(s) == IF s # <<>> /\ Head(s) = "-" THEN Tail(s) ELSE s

DotPositions(s) == {i \in 1..Len(s) : s[i] = "."}

IsDecimalLiteral(s) ==
    LET b == UnsignedPart(s) IN
    /\ \A i \in 1..Len(b) : b[i] # "-"
    /\ Cardinality(DotPositions(b)) <= 1
    /\ \E i \in 1..Len(b) : b[i] \in Digits

QuantizedMagnitude(b) ==
    LET dot == IF DotPositions(b) = {} THEN Len(b) + 1 ELSE CHOOSE i \in DotPositions(b) : TRUE
        whole == SubSeq(b, 1, dot - 1)
        frac == SubSeq(b, dot + 1, Len(b))
        Frac(i) == IF i <= Len(frac) THEN DigitVal(frac[i]) ELSE 0
    IN  100 * IntVal(whole) + 10 * Frac(1) + Frac(2) + (IF Frac(3) >= 5 THEN 1 ELSE 0)

parse_currency(amount_str) ==
    IF amount_str = <<>> THEN 0
    ELSE LET cleaned == Cleaned(amount_str) IN
         IF ~IsDecimalLiteral(cleaned) THEN 0
         ELSE IF Head(cleaned) = "-" THEN 0 - QuantizedMagnitude(UnsignedPart(cleaned))
         ELSE QuantizedMagnitude(cleaned)

(* ---------------------------------------------------------------------- *)
(* Tables                                                                  *)
(* ---------------------------------------------------------------------- *)
RECURSIVE MaxOf(_)
MaxOf(S) == IF S = 1..Cardinality(S) THEN Cardinality(S)
            ELSE LET x == CHOOSE y \in S : TRUE
                     m == MaxOf(S \ {x})
                 IN IF x > m THEN x ELSE m

NextId(table) == MaxOf(DOMAIN table) + 1

Insert(table, row) ==
    [i \in DOMAIN table \cup {NextId(table)} |-> IF i \in DOMAIN table THEN table[i] ELSE row]

Remove(table, id) == [i \in DOMAIN table \ {id} |-> table[i]]

strip(s) == IF s = " " THEN "" ELSE s

TransactionTypes == {"income", "expense", "transfer"}

CreatePeriods == {"daily", "weekly", "monthly", "yearly"}

Response(op, user, status, id) ==
    [op |-> op, user_id |-> user, status |-> status, created_count |-> 0, errors |-> 0,
     created_transactions |-> <<>>, dry_run |-> FALSE]

Outcome(newdb, resp) == [db |-> newdb, resp |-> resp]

(* ---------------------------------------------------------------------- *)
(* models.BudgetCategory.update_available_amount                           *)
(* ---------------------------------------------------------------------- *)
RECURSIVE SumAmounts(_, _)
SumAmounts(table, ids) ==
    IF ids = {} THEN 0
    ELSE LET i == CHOOSE j \in ids : TRUE IN table[i].amount + SumAmounts(table, ids \ {i})

LinkedExpenses(d, cid, start_date, end_date) ==
    {i \in DOMAIN d.transaction :
        /\ d.transaction[i].category_id = cid
        /\ d.transaction[i].transaction_type = "expense"
        /\ DateLE(start_date, d.transaction[i].transaction_date)
        /\ DateLE(d.transaction[i].transaction_date, end_date)}

(* Variant of update_available_amount that starts from the stored          *)
(* available amount instead of the allocation.                             *)
update_available_amountAccumulating(d, cid, now) ==
    LET start_date == <<now[1], now[2], 1>>
        end_date == <<now[1], now[2], monthrange(now[1], now[2])>>
        total_spent == SumAmounts(d.transaction, LinkedExpenses(d, cid, start_date, end_date))
    IN  d.budget_category[cid].available_amount - total_spent

update_available_amount(d, cid, now) ==
    LET start_date == <<now[1], now[2], 1>>
        end_date == <<now[1], now[2], monthrange(now[1], now[2])>>
        total_spent == SumAmounts(d.transaction, LinkedExpenses(d, cid, start_date, end_date))
    IN  d.budget_category[cid].allocated_amount - total_spent

Recomputed(d, cids, now) ==
    [d EXCEPT !.budget_category =
        [c \in DOMAIN d.budget_category |->
            IF c \in cids
            THEN [d.budget_category[c] EXCEPT !.available_amount = update_available_amount(d, c, now)]
            ELSE d.budget_category[c]]]

OwnCategories(d, u) == {c \in DOMAIN d.budget_category : d.budget_category[c].user_id = u}

OwnsCategory(d, u, cid) == cid \in OwnCategories(d, u)

(* ---------------------------------------------------------------------- *)
(* api/budget.py: categories                                               *)
(* ---------------------------------------------------------------------- *)
get_categories(d, now, u) ==
    Outcome(Recomputed(d, OwnCategories(d, u), now), Response("get_categories", u, 200, 0))

get_category(d, now, u, category_id) ==
    IF ~OwnsCategory(d, u, category_id)
    THEN Outcome(d, Response("get_category", u, 404, category_id))
    ELSE Outcome(Recomputed(d, {category_id}, now), Response("get_category", u, 200, category_id))

create_category(d, u, data) ==
    LET name == strip(data.name)
        allocated_amount == parse_currency(data.allocated_amount)
        R(status) == Response("create_category", u, status, 0)
    IN  IF name = "" THEN Outcome(d, R(400))
        ELSE IF \E c \in OwnCategories(d, u) : d.budget_category[c].name = name THEN Outcome(d, R(400))
        ELSE IF allocated_amount < 0 THEN Outcome(d, R(400))
        ELSE IF data.category_type \notin {"income", "expense", "saving"} THEN Outcome(d, R(400))
        ELSE Outcome(
                [d EXCEPT !.budget_category = Insert(@,
                    [user_id |-> u, name |-> name, allocated_amount |-> allocated_amount,
                     available_amount |-> allocated_amount, category_type |-> data.category_type])],
                Response("create_category", u, 201, NextId(d.budget_category)))

(* ---------------------------------------------------------------------- *)
(* api/transactions.py: the JSON body returned for a stored transaction.   *)
(* The amount is rendered float(transaction.amount): the shortest decimal  *)
(* with at least one fractional digit.                                     *)
(* ---------------------------------------------------------------------- *)
DigitChar(i) == CHOOSE c \in Digits : DigitVal(c) = i

RECURSIVE IntStr(_)
IntStr(n) == IF n < 10 THEN <<DigitChar(n)>> ELSE Append(IntStr(n \div 10), DigitChar(n % 10))

float_amount(amount) ==
    IntStr(amount \div 100) \o <<".">> \o
    (IF amount % 10 = 0 THEN <<DigitChar((amount % 100) \div 10)>>
     ELSE <<DigitChar((amount % 100) \div 10), DigitChar(amount % 10)>>)

transaction_json(transaction) ==
    [amount |-> float_amount(transaction.amount), description |-> transaction.description,
     transaction_type |-> transaction.transaction_type, category_id |-> transaction.category_id,
     transaction_date |-> transaction.transaction_date, account |-> transaction.account,
     recurring |-> transaction.recurring, recurring_period |-> transaction.recurring_period]

(* ---------------------------------------------------------------------- *)
(* api/transactions.py: create, update, delete                             *)
(* ---------------------------------------------------------------------- *)
Adjust(categories, cid, delta) ==
    [categories EXCEPT ![cid].available_amount = @ + delta]

(* Variant of CreateImpact that charges the category whatever the type.    *)
CreateImpactAnyType(categories, category_id, transaction_type, amount) ==
    IF category_id # NoCategory
    THEN Adjust(categories, category_id, 0 - amount)
    ELSE categories

CreateImpact(categories, category_id, transaction_type, amount) ==
    IF category_id # NoCategory /\ transaction_type = "expense"
    THEN Adjust(categories, category_id, 0 - amount)
    ELSE categories

create_transaction(d, now, u, data) ==
    LET description == strip(data.description)
        transaction_type == data.transaction_type
        amount == parse_currency(data.amount)
        category_id == data.category_id
        R(status) == Response("create_transaction", u, status, 0)
    IN  IF description = "" THEN Outcome(d, R(400))
        ELSE IF transaction_type \notin TransactionTypes THEN Outcome(d, R(400))
        ELSE IF amount <= 0 THEN Outcome(d, R(400))
        ELSE IF category_id # NoCategory /\ ~OwnsCategory(d, u, category_id) THEN Outcome(d, R(404))
        ELSE IF data.transaction_date # NoDate /\ ~IsDate(data.transaction_date) THEN Outcome(d, R(400))
        ELSE IF data.recurring /\ data.recurring_period = "" THEN Outcome(d, R(400))
        ELSE IF data.recurring_period # "" /\ data.recurring_period \notin CreatePeriods THEN Outcome(d, R(400))
        ELSE LET transaction ==
                    [user_id |-> u, category_id |-> category_id, amount |-> amount,
                     description |-> description, transaction_type |-> transaction_type,
                     transaction_date |-> IF data.transaction_date = NoDate THEN now ELSE data.transaction_date,
                     account |-> data.account, recurring |-> data.recurring,
                     recurring_period |-> data.recurring_period]
             IN  Outcome([d EXCEPT !.transaction = Insert(@, transaction),
                                   !.budget_category = CreateImpact(@, category_id, transaction_type, amount)],
                         Response("create_transaction", u, 201, NextId(d.transaction)))

(* Variant of Abort that stores the assignments made before the return.    *)
AbortKeepsPending(d, transaction_id, pending, resp) ==
    Outcome([d EXCEPT !.transaction[transaction_id] = pending], resp)

(* A handler that returns before db.session.commit() leaves the pending    *)
(* assignments in its session, which is discarded with the request.        *)
Abort(d, transaction_id, pending, resp) == Outcome(d, resp)

(* Variant of RevertOriginalImpact that never credits the old category.    *)
RevertOriginalImpactSkipped(categories, original_category_id, original_type, original_amount) ==
    categories

RevertOriginalImpact(categories, original_category_id, original_type, original_amount) ==
    IF original_category_id # NoCategory /\ original_type = "expense"
       /\ original_category_id \in DOMAIN categories
    THEN Adjust(categories, original_category_id, original_amount)
    ELSE categories

(* Variant of ApplyNewImpact that charges the category whatever the type.  *)
ApplyNewImpactAnyType(categories, transaction) ==
    IF transaction.category_id # NoCategory /\ transaction.category_id \in DOMAIN categories
    THEN Adjust(categories, transaction.category_id, 0 - transaction.amount)
    ELSE categories

ApplyNewImpact(categories, transaction) ==
    IF transaction.category_id # NoCategory /\ transaction.transaction_type = "expense"
       /\ transaction.category_id \in DOMAIN categories
    THEN Adjust(categories, transaction.category_id, 0 - transaction.amount)
    ELSE categories

update_transaction(d, u, transaction_id, data) ==
    LET R(status) == Response("update_transaction", u, status, transaction_id)
        Has(k) == k \in data.keys
    IN  IF transaction_id \notin DOMAIN d.transaction \/ d.transaction[transaction_id].user_id # u
        THEN Outcome(d, R(404))
        ELSE IF data.keys = {} THEN Outcome(d, R(400))
        ELSE LET transaction == d.transaction[transaction_id]
                 original_amount == transaction.amount
                 original_category_id == transaction.category_id
                 original_type == transaction.transaction_type
                 t1 == IF Has("amount") THEN [transaction EXCEPT !.amount = parse_currency(data.amount)]
                       ELSE transaction
                 t2 == IF Has("description") THEN [t1 EXCEPT !.description = strip(data.description)] ELSE t1
                 t3 == IF Has("transaction_type") THEN [t2 EXCEPT !.transaction_type = data.transaction_type]
                       ELSE t2
                 t4 == IF Has("category_id") THEN [t3 EXCEPT !.category_id = data.category_id] ELSE t3
                 t5 == IF Has("transaction_date") THEN [t4 EXCEPT !.transaction_date = data.transaction_date]
                       ELSE t4
                 t6 == IF Has("account") THEN [t5 EXCEPT !.account = data.account] ELSE t5
                 t7 == IF Has("recurring") THEN [t6 EXCEPT !.recurring = data.recurring] ELSE t6
                 t8 == IF Has("recurring_period") THEN [t7 EXCEPT !.recurring_period = data.recurring_period]
                       ELSE t7
             IN  IF Has("amount") /\ parse_currency(data.amount) <= 0
                 THEN Abort(d, transaction_id, transaction, R(400))
                 ELSE IF Has("description") /\ strip(data.description) = ""
                 THEN Abort(d, transaction_id, t1, R(400))
                 ELSE IF Has("transaction_type") /\ data.transaction_type \notin TransactionTypes
                 THEN Abort(d, transaction_id, t2, R(400))
                 ELSE IF Has("category_id") /\ data.category_id # NoCategory
                         /\ ~OwnsCategory(d, u, data.category_id)
                 THEN Abort(d, transaction_id, t3, R(404))
                 ELSE IF Has("transaction_date") /\ data.transaction_date = NoDate
                 THEN Abort(d, transaction_id, t4, R(500))
                 ELSE IF Has("transaction_date") /\ ~IsDate(data.transaction_date)
                 THEN Abort(d, transaction_id, t4, R(400))
                 ELSE IF Has("recurring_period") /\ data.recurring_period # ""
                         /\ data.recurring_period \notin CreatePeriods
                 THEN Abort(d, transaction_id, t7, R(400))
                 ELSE LET reverted == RevertOriginalImpact(d.budget_category, original_category_id,
                                                           original_type, original_amount)
                      IN  Outcome([d EXCEPT !.transaction[transaction_id] = t8,
                                            !.budget_category = ApplyNewImpact(reverted, t8)],
                                  R(200))

(* Variant of DeleteImpact that credits the category whatever the type.    *)
DeleteImpactAnyType(categories, transaction) ==
    IF transaction.category_id # NoCategory /\ transaction.category_id \in DOMAIN categories
    THEN Adjust(categories, transaction.category_id, transaction.amount)
    ELSE categories

DeleteImpact(categories, transaction) ==
    IF transaction.category_id # NoCategory /\ transaction.transaction_type = "expense"
       /\ transaction.category_id \in DOMAIN categories
    THEN Adjust(categories, transaction.category_id, transaction.amount)
    ELSE categories

delete_transaction(d, u, transaction_id) ==
    LET R(status) == Response("delete_transaction", u, status, transaction_id) IN
    IF transaction_id \notin DOMAIN d.transaction \/ d.transaction[transaction_id].user_id # u
    THEN Outcome(d, R(404))
    ELSE Outcome([d EXCEPT !.transaction = Remove(@, transaction_id),
                           !.budget_category = DeleteImpact(@, d.transaction[transaction_id])],
                 R(200))

(* ---------------------------------------------------------------------- *)
(* api/transactions.py: bulk create.  The request list is                  *)
(* data.transactions followed by data.empties items without any field.     *)
(* ---------------------------------------------------------------------- *)
BulkLimit == 100

BulkItemFails(item) ==
    \/ item.amount = <<>> \/ item.description = "" \/ item.transaction_type = ""
    \/ parse_currency(item.amount) <= 0
    \/ (item.transaction_date # NoDate /\ ~IsDate(item.transaction_date))

BulkRow(u, now, item) ==
    [user_id |-> u, category_id |-> item.category_id, amount |-> parse_currency(item.amount),
     description |-> strip(item.description), transaction_type |-> item.transaction_type,
     transaction_date |-> IF item.transaction_date = NoDate THEN now ELSE item.transaction_date,
     account |-> item.account, recurring |-> FALSE, recurring_period |-> ""]

RECURSIVE BulkAdd(_, _, _, _)
BulkAdd(table, u, now, items) ==
    IF items = <<>> THEN table
    ELSE IF BulkItemFails(Head(items)) THEN BulkAdd(table, u, now, Tail(items))
    ELSE BulkAdd(Insert(table, BulkRow(u, now, Head(items))), u, now, Tail(items))

create_bulk_transactions(d, now, u, data) ==
    LET transactions_data == data.transactions
        R(status) == Response("create_bulk_transactions", u, status, 0)
        errors == Cardinality({i \in 1..Len(transactions_data) : BulkItemFails(transactions_data[i])})
                  + data.empties
        created == Len(transactions_data) + data.empties - errors
    IN  IF Len(transactions_data) + data.empties > BulkLimit THEN Outcome(d, R(400))
        ELSE IF errors > 0 /\ created = 0 THEN Outcome(d, [R(400) EXCEPT !.errors = errors])
        ELSE Outcome([d EXCEPT !.transaction = BulkAdd(@, u, now, transactions_data)],
                     [R(201) EXCEPT !.created_count = created, !.errors = errors])

(* ---------------------------------------------------------------------- *)
(* Budget transfer: api/budget.py and services/budget_service.py           *)
(* ---------------------------------------------------------------------- *)
(* Variant of Move that credits the destination without debiting the      *)
(* source.                                                                 *)
MoveCreditOnly(categories, from_category_id, to_category_id, amount) ==
    [categories EXCEPT ![to_category_id].available_amount = @ + amount,
                       ![to_category_id].allocated_amount = @ + amount]

Move(categories, from_category_id, to_category_id, amount) ==
    LET debited == [categories EXCEPT ![from_category_id].available_amount = @ - amount,
                                      ![from_category_id].allocated_amount = @ - amount]
    IN  [debited EXCEPT ![to_category_id].available_amount = @ + amount,
                        ![to_category_id].allocated_amount = @ + amount]

transfer_budget(d, now, u, data) ==
    LET from_category_id == data.from_category_id
        to_category_id == data.to_category_id
        amount == parse_currency(data.amount)
        R(status) == Response("transfer_budget", u, status, 0)
    IN  IF from_category_id = NoCategory \/ to_category_id = NoCategory THEN Outcome(d, R(400))
        ELSE IF from_category_id = to_category_id THEN Outcome(d, R(400))
        ELSE IF amount <= 0 THEN Outcome(d, R(400))
        ELSE IF ~OwnsCategory(d, u, from_category_id) \/ ~OwnsCategory(d, u, to_category_id)
             THEN Outcome(d, R(404))
        ELSE LET fresh == Recomputed(d, {from_category_id, to_category_id}, now) IN
             IF fresh.budget_category[from_category_id].available_amount < amount THEN Outcome(d, R(400))
             ELSE Outcome([fresh EXCEPT !.budget_category = Move(@, from_category_id, to_category_id, amount)],
                          R(200))

Returned == 0
Raised == 1

BudgetService_transfer_budget(d, now, from_category_id, to_category_id, amount, user_id) ==
    LET R(status) == Response("BudgetService.transfer_budget", user_id, status, 0) IN
    IF ~OwnsCategory(d, user_id, from_category_id) \/ ~OwnsCategory(d, user_id, to_category_id)
    THEN Outcome(d, R(Raised))
    ELSE IF amount <= 0 THEN Outcome(d, R(Raised))
    ELSE LET fresh == Recomputed(d, {from_category_id, to_category_id}, now) IN
         IF fresh.budget_category[from_category_id].available_amount < amount THEN Outcome(d, R(Raised))
         ELSE Outcome([fresh EXCEPT !.budget_category = Move(@, from_category_id, to_category_id, amount)],
                      R(Returned))

(* ---------------------------------------------------------------------- *)
(* State machine.  Every action takes the finite set of requests it may    *)
(* serve; a request is the tuple of the caller and the handler's inputs.   *)
(* ---------------------------------------------------------------------- *)
(* calendar holds a date being advanced period by period from an anchor;   *)
(* the request handlers do not use it.                                     *)
NoCalendar == [anchor |-> NoDate, period |-> "", date |-> NoDate, steps |-> 0]

(* A database session per worker: idle, or holding the rows as they were   *)
(* loaded (base) and as the handler has changed them in memory (view),     *)
(* with the response the handler is about to return.                       *)
Workers == {1, 2}

IdleSession == [pc |-> "idle", base |-> <<>>, view |-> <<>>, request |-> <<>>, resp |-> <<>>]

NoSessions == [w \in Workers |-> IdleSession]

Init ==
    /\ db = [budget_category |-> <<>>, transaction |-> <<>>, budget_template |-> <<>>,
             account_reconciliation |-> <<>>, reconciliation_item |-> <<>>]
    /\ today = StartDate
    /\ last = Response("init", 0, 0, 0)
    /\ calendar = NoCalendar
    /\ sessions = NoSessions

CategoryIds == 0..MaxCategories
TransactionIds == 1..MaxTransactions

WithinBounds(d) ==
    /\ DOMAIN d.budget_category \subseteq 1..MaxCategories
    /\ DOMAIN d.transaction \subseteq TransactionIds
    /\ DOMAIN d.budget_template \subseteq 1..MaxTemplates
    /\ DOMAIN d.account_reconciliation \subseteq 1..MaxReconciliations
    /\ \A c \in DOMAIN d.budget_category :
          d.budget_category[c].available_amount \in (0 - 100 * MaxBalance)..(100 * MaxBalance)

Do(o) ==
    /\ WithinBounds(o.db)
    /\ db' = o.db
    /\ last' = o.resp
    /\ UNCHANGED <<today, calendar, sessions>>

CreateCategory(Reqs) == \E r \in Reqs : Do(create_category(db, r[1], r[2]))

GetCategories(Reqs) == \E r \in Reqs : Do(get_categories(db, today, r[1]))

GetCategory(Reqs) == \E r \in Reqs : Do(get_category(db, today, r[1], r[2]))

CreateTransaction(Reqs) == \E r \in Reqs : Do(create_transaction(db, today, r[1], r[2]))

UpdateTransaction(Reqs) == \E r \in Reqs : Do(update_transaction(db, r[1], r[2], r[3]))

DeleteTransaction(Reqs) == \E r \in Reqs : Do(delete_transaction(db, r[1], r[2]))

CreateBulkTransactions(Reqs) == \E r \in Reqs : Do(create_bulk_transactions(db, today, r[1], r[2]))

TransferBudget(Reqs) == \E r \in Reqs : Do(transfer_budget(db, today, r[1], r[2]))

ServiceTransferBudget(Reqs) ==
    \E r \in Reqs : Do(BudgetService_transfer_budget(db, today, r[2], r[3], r[4], r[1]))

(* ---------------------------------------------------------------------- *)
(* Request values                                                          *)
(* ---------------------------------------------------------------------- *)
Category(n) == [name |-> n, allocated_amount |-> <<"3">>, category_type |-> "expense"]

BaseCreate ==
    [amount |-> <<"1">>, description |-> "d", transaction_type |-> "expense",
     category_id |-> NoCategory, transaction_date |-> NoDate, account |-> "checking",
     recurring |-> FALSE, recurring_period |-> ""]

FaultyCreates ==
    {[BaseCreate EXCEPT !.category_id = 1, !.amount = <<"x">>],
     [BaseCreate EXCEPT !.category_id = 1, !.description = " "],
     [BaseCreate EXCEPT !.category_id = 1, !.transaction_type = "bogus"]}

BasePatch ==
    [keys |-> {}, amount |-> <<>>, description |-> "", transaction_type |-> "", category_id |-> NoCategory,
     transaction_date |-> NoDate, recurring_period |-> ""]

Patch(k, a, ds, t, c, dt, p) ==
    [keys |-> k,
     amount |-> IF "amount" \in k THEN a ELSE BasePatch.amount,
     description |-> IF "description" \in k THEN ds ELSE BasePatch.description,
     transaction_type |-> IF "transaction_type" \in k THEN t ELSE BasePatch.transaction_type,
     category_id |-> IF "category_id" \in k THEN c ELSE BasePatch.category_id,
     transaction_date |-> IF "transaction_date" \in k THEN dt ELSE BasePatch.transaction_date,
     recurring_period |-> IF "recurring_period" \in k THEN p ELSE BasePatch.recurring_period]

FaultyPatches ==
    {Patch({"amount", "category_id"}, <<"-", "1">>, "", "", 1, NoDate, ""),
     Patch({"amount", "description"}, <<"$", "2">>, " ", "", 0, NoDate, ""),
     Patch({"amount", "transaction_type"}, <<"$", "2">>, "", "bogus", 0, NoDate, "")}

(* ---------------------------------------------------------------------- *)
(* SpecLedger: user 1 keeps a ledger over two categories of their own.     *)
(* ---------------------------------------------------------------------- *)
LedgerCategories == {<<1, Category("Food")>>, <<1, Category("Rent")>>}

LedgerCreates ==
    {<<1, [BaseCreate EXCEPT !.category_id = c]>> : c \in CategoryIds}
    \cup {<<1, [BaseCreate EXCEPT !.transaction_type = "income", !.category_id = 1]>>,
          <<1, [BaseCreate EXCEPT !.transaction_type = "transfer"]>>}
    \cup {<<1, data>> : data \in FaultyCreates}

LedgerPatches ==
    {Patch({"amount"}, <<"$", "2">>, "", "", 0, NoDate, ""),
     Patch({"category_id"}, <<>>, "", "", 2, NoDate, ""),
     Patch({"amount", "transaction_type", "category_id"}, <<"$", "2">>, "", "expense", 1, NoDate, "")}
    \cup FaultyPatches

LedgerUpdates == {<<1, t, data>> : t \in TransactionIds, data \in LedgerPatches}

LedgerDeletes == {<<1, t>> : t \in TransactionIds}

NextLedger ==
    \/ CreateCategory(LedgerCategories)
    \/ CreateTransaction(LedgerCreates)
    \/ UpdateTransaction(LedgerUpdates)
    \/ DeleteTransaction(LedgerDeletes)

SpecLedger == Init /\ [][NextLedger]_vars

(* ---------------------------------------------------------------------- *)
(* Ledger properties                                                       *)
(* ---------------------------------------------------------------------- *)
AvailableOf(d, c) == d.budget_category[c].available_amount

(* C3: an accepted create of an expense tied to a category lowers that      *)
(* category's available amount by exactly the stored amount; an accepted    *)
(* create of any other kind leaves every category's balance as it was.      *)
C3_CreateEffect ==
    [][(last'.op = "create_transaction" /\ last'.status = 201) =>
          \E id \in DOMAIN db'.transaction \ DOMAIN db.transaction :
             LET row == db'.transaction[id] IN
             /\ DOMAIN db'.transaction = DOMAIN db.transaction \cup {id}
             /\ \A x \in DOMAIN db.transaction : db'.transaction[x] = db.transaction[x]
             /\ row.amount > 0
             /\ DOMAIN db'.budget_category = DOMAIN db.budget_category
             /\ \A c \in DOMAIN db.budget_category :
                   IF row.transaction_type = "expense" /\ row.category_id = c
                   THEN db'.budget_category[c] =
                           [db.budget_category[c] EXCEPT !.available_amount = @ - row.amount]
                   ELSE db'.budget_category[c] = db.budget_category[c]]_vars

C3_Witness ==
    /\ last.op = "create_transaction" /\ last.status = 201
    /\ \E t \in DOMAIN db.transaction :
          /\ db.transaction[t].transaction_type = "expense"
          /\ db.transaction[t].category_id \in DOMAIN db.budget_category
          /\ AvailableOf(db, db.transaction[t].category_id) < 300
    /\ \E t \in DOMAIN db.transaction : db.transaction[t].transaction_type = "income"

(* C4: deleting a transaction removes the record, and when it was an        *)
(* expense tied to a category that category's available amount rises by    *)
(* the transaction's amount; nothing else changes.                          *)
C4_DeleteEffect ==
    [][(last'.op = "delete_transaction" /\ last'.status = 200) =>
          \E id \in DOMAIN db.transaction \ DOMAIN db'.transaction :
             LET row == db.transaction[id] IN
             /\ DOMAIN db'.transaction = DOMAIN db.transaction \ {id}
             /\ \A x \in DOMAIN db'.transaction : db'.transaction[x] = db.transaction[x]
             /\ DOMAIN db'.budget_category = DOMAIN db.budget_category
             /\ \A c \in DOMAIN db.budget_category :
                   IF row.transaction_type = "expense" /\ row.category_id = c
                   THEN db'.budget_category[c] =
                           [db.budget_category[c] EXCEPT !.available_amount = @ + row.amount]
                   ELSE db'.budget_category[c] = db.budget_category[c]]_vars

C4_Witness ==
    /\ last.op = "delete_transaction" /\ last.status = 200
    /\ \E c \in DOMAIN db.budget_category : AvailableOf(db, c) < 300
    /\ \E c \in DOMAIN db.budget_category : AvailableOf(db, c) = 300
    /\ db.transaction # <<>>

(* C2: the category balances left by an accepted update equal the balances  *)
(* left by deleting the original transaction and creating a fresh one that  *)
(* carries the patched values.                                              *)
C2_UpdateSymmetry ==
    [][(last'.op = "update_transaction" /\ last'.status = 200) =>
          \E t \in DOMAIN db.transaction \cap DOMAIN db'.transaction :
             LET u == last'.user_id
                 deleted == delete_transaction(db, u, t)
                 fresh == create_transaction(deleted.db, today, u, transaction_json(db'.transaction[t]))
             IN  /\ \A x \in DOMAIN db.transaction \ {t} : db'.transaction[x] = db.transaction[x]
                 /\ deleted.resp.status = 200
                 /\ fresh.resp.status = 201
                 /\ fresh.db.budget_category = db'.budget_category]_vars

C2_Witness ==
    /\ last.op = "update_transaction" /\ last.status = 200
    /\ \E t \in DOMAIN db.transaction : \E c \in DOMAIN db.budget_category :
          /\ db.transaction[t].amount = 200
          /\ db.transaction[t].transaction_type = "expense"
          /\ db.transaction[t].category_id = c
          /\ AvailableOf(db, c) = 100
    /\ \E c \in DOMAIN db.budget_category :
          /\ db.budget_category[c].user_id = 1
          /\ AvailableOf(db, c) = 300

(* ---------------------------------------------------------------------- *)
(* SpecWindow: user 1 books expenses on one category, dated this month or  *)
(* last month, and reads the category between the writes.                  *)
(* ---------------------------------------------------------------------- *)
WindowCategories == {<<1, Category("Food")>>}

WindowCreates ==
    {<<1, [BaseCreate EXCEPT !.category_id = 1, !.transaction_date = dt]>> : dt \in {NoDate, LastMonthDate}}

WindowPatches ==
    {Patch({"amount"}, <<"$", "2">>, "", "", 0, NoDate, ""),
     Patch({"transaction_date"}, <<>>, "", "", 0, LastMonthDate, ""),
     Patch({"transaction_date"}, <<>>, "", "", 0, StartDate, "")}

WindowUpdates == {<<1, t, data>> : t \in TransactionIds, data \in WindowPatches}

WindowDeletes == {<<1, t>> : t \in TransactionIds}

NextWindow ==
    \/ CreateCategory(WindowCategories)
    \/ CreateTransaction(WindowCreates)
    \/ UpdateTransaction(WindowUpdates)
    \/ DeleteTransaction(WindowDeletes)
    \/ GetCategory({<<1, 1>>})
    \/ GetCategories({<<1>>})

SpecWindow == Init /\ [][NextWindow]_vars

ExpensesEver(d, cid) ==
    {t \in DOMAIN d.transaction :
        d.transaction[t].category_id = cid /\ d.transaction[t].transaction_type = "expense"}

(* C1: every category's stored available amount equals its allocated       *)
(* amount minus the linked expenses of the window: the current month, as   *)
(* the recomputation defines it, or failing that all time.                 *)
C1_BalanceInvariant ==
    \A c \in DOMAIN db.budget_category :
        LET category == db.budget_category[c] IN
        \/ category.available_amount = update_available_amount(db, c, today)
        \/ category.available_amount =
              category.allocated_amount - SumAmounts(db.transaction, ExpensesEver(db, c))

(* ---------------------------------------------------------------------- *)
(* SpecIsolation: user 1 owns a category and reads it; user 2 creates,     *)
(* bulk-creates, updates and deletes transactions, naming categories of    *)
(* either user.                                                            *)
(* ---------------------------------------------------------------------- *)
IsolationCategories == {<<1, Category("Food")>>, <<2, Category("Food")>>}

IsolationCreates ==
    {<<2, [BaseCreate EXCEPT !.category_id = c]>> : c \in {1, 2}}
    \cup {<<2, data>> : data \in FaultyCreates}

BulkItems ==
    {[BaseCreate EXCEPT !.category_id = 1],
     [BaseCreate EXCEPT !.transaction_type = "bogus"],
     [BaseCreate EXCEPT !.amount = <<"0">>]}

RECURSIVE SeqsUpTo(_, _)
SeqsUpTo(S, n) ==
    IF n = 0 THEN {<<>>}
    ELSE LET shorter == SeqsUpTo(S, n - 1) IN
         shorter \cup {Append(q, x) : q \in shorter, x \in S}

Batches ==
    {[transactions |-> q, empties |-> 0] : q \in SeqsUpTo(BulkItems, MaxBatch)}
    \cup {[transactions |-> <<>>, empties |-> n] : n \in {1, BulkLimit, BulkLimit + 1}}
    \cup {[transactions |-> <<[BaseCreate EXCEPT !.category_id = 1]>>, empties |-> n] :
            n \in {1, BulkLimit}}

IsolationBatches ==
    {[transactions |-> q, empties |-> 0] :
        q \in {<<>>,
                <<[BaseCreate EXCEPT !.category_id = 1]>>,
                <<[BaseCreate EXCEPT !.category_id = 1], [BaseCreate EXCEPT !.amount = <<"0">>]>>,
                <<[BaseCreate EXCEPT !.transaction_type = "bogus"]>>,
                <<[BaseCreate EXCEPT !.amount = <<"0">>]>>}}
    \cup {[transactions |-> <<>>, empties |-> BulkLimit + 1]}

IsolationPatches ==
    {Patch({"amount"}, <<"$", "2">>, "", "", 0, NoDate, ""),
     Patch({"category_id"}, <<>>, "", "", 1, NoDate, "")}
    \cup FaultyPatches

IsolationUpdates == {<<2, t, data>> : t \in TransactionIds, data \in IsolationPatches}

IsolationDeletes == {<<2, t>> : t \in TransactionIds}

NextIsolation ==
    \/ CreateCategory(IsolationCategories)
    \/ GetCategory({<<1, 1>>, <<1, 2>>})
    \/ CreateTransaction(IsolationCreates)
    \/ CreateBulkTransactions({<<2, data>> : data \in IsolationBatches})
    \/ UpdateTransaction(IsolationUpdates)
    \/ DeleteTransaction(IsolationDeletes)

SpecIsolation == Init /\ [][NextIsolation]_vars

(* C5: a create or an update that is rejected (bad amount, empty            *)
(* description, unknown type, category not owned by the caller) leaves      *)
(* every stored transaction and every category balance as it was.           *)
C5_RejectedLeavesUnchanged ==
    [][(last'.op \in {"create_transaction", "update_transaction"} /\ last'.status \in {400, 404})
          => db' = db]_vars

C5_Witness ==
    /\ last.op = "update_transaction" /\ last.status = 400
    /\ \E t \in DOMAIN db.transaction :
          /\ db.transaction[t].user_id = last.user_id
          /\ db.transaction[t].category_id \in OwnCategories(db, last.user_id)
          /\ db.transaction[t].transaction_type = "expense"
    /\ \E c \in DOMAIN db.budget_category : db.budget_category[c].user_id # last.user_id

(* C6: a step taken by user 2 changes no category and no transaction of    *)
(* user 1, and stores no transaction of user 2 on a category of user 1     *)
(* (a request naming it is answered as not found).                         *)
C6_UserIsolation ==
    [][last'.user_id = 2 =>
          /\ \A c \in OwnCategories(db, 1) :
                c \in DOMAIN db'.budget_category /\ db'.budget_category[c] = db.budget_category[c]
          /\ \A t \in DOMAIN db.transaction :
                db.transaction[t].user_id = 1 =>
                    t \in DOMAIN db'.transaction /\ db'.transaction[t] = db.transaction[t]
          /\ \A t \in DOMAIN db'.transaction :
                (db'.transaction[t].user_id = 2 /\ (t \notin DOMAIN db.transaction
                                                      \/ db.transaction[t] # db'.transaction[t]))
                    => db'.transaction[t].category_id \notin OwnCategories(db, 1)]_vars

(* C7: every transaction an accepted bulk create stores has a known type   *)
(* and a category of the caller (or none), and every category's available  *)
(* amount drops by the stored expenses booked on it, as create would do.   *)
C7_BulkAppliesCreate ==
    [][(last'.op = "create_bulk_transactions" /\ last'.status = 201) =>
          LET u == last'.user_id
              stored == DOMAIN db'.transaction \ DOMAIN db.transaction
          IN  /\ \A t \in stored :
                    /\ db'.transaction[t].transaction_type \in TransactionTypes
                    /\ \/ db'.transaction[t].category_id = NoCategory
                       \/ OwnsCategory(db, u, db'.transaction[t].category_id)
              /\ \A c \in DOMAIN db.budget_category :
                    AvailableOf(db', c) =
                        AvailableOf(db, c)
                        - SumAmounts(db'.transaction, stored \cap ExpensesEver(db', c))]_vars

ValidItems(d, now, u, items) ==
    {i \in 1..Len(items) : create_transaction(d, now, u, items[i]).resp.status = 201}

(* C8: a batch of more than 100 items, or a non-empty batch without a      *)
(* valid item, is rejected and stores nothing; a batch with a valid item   *)
(* stores exactly its valid items and reports one error per invalid item.  *)
C8_BulkOutcome ==
    \A u \in Users : \A data \in Batches :
        LET o == create_bulk_transactions(db, today, u, data)
            n == Len(data.transactions) + data.empties
            valid == Cardinality(ValidItems(db, today, u, data.transactions))
        IN  /\ (n > BulkLimit \/ (n > 0 /\ valid = 0)) => (o.resp.status = 400 /\ o.db = db)
            /\ (n <= BulkLimit /\ valid > 0) =>
                  /\ o.resp.status = 201
                  /\ o.resp.created_count = valid
                  /\ o.resp.errors = n - valid
                  /\ Cardinality(DOMAIN o.db.transaction) = Cardinality(DOMAIN db.transaction) + valid

(* ---------------------------------------------------------------------- *)
(* SpecTransfer: user 1 moves budget between categories, through the       *)
(* endpoint and through BudgetService, beside a category of user 2.        *)
(* ---------------------------------------------------------------------- *)
TransferCategories == {<<1, Category("Food")>>, <<1, Category("Rent")>>, <<2, Category("Food")>>}

TransferCreates ==
    {<<1, [BaseCreate EXCEPT !.category_id = 1, !.transaction_date = dt]>> : dt \in {NoDate, LastMonthDate}}

TransferAmounts == {<<"1">>, <<"4">>, <<"0">>, <<"-", "1">>}

TransferRequests ==
    {<<1, [from_category_id |-> f, to_category_id |-> t, amount |-> a]>> :
        f \in CategoryIds, t \in CategoryIds, a \in TransferAmounts}

ServiceRequests ==
    {<<1, f, t, parse_currency(a)>> : f \in CategoryIds, t \in CategoryIds, a \in TransferAmounts}

NextTransfer ==
    \/ CreateCategory(TransferCategories)
    \/ CreateTransaction(TransferCreates)
    \/ TransferBudget(TransferRequests)
    \/ ServiceTransferBudget(ServiceRequests)

SpecTransfer == Init /\ [][NextTransfer]_vars

MustReject(d, now, u, from_category_id, to_category_id, amount) ==
    \/ from_category_id = to_category_id
    \/ amount <= 0
    \/ ~OwnsCategory(d, u, from_category_id)
    \/ ~OwnsCategory(d, u, to_category_id)
    \/ update_available_amount(d, from_category_id, now) < amount

(* C9: a transfer whose source equals its destination, whose amount is not  *)
(* positive, whose categories are not both the caller's, or whose source    *)
(* has less available (freshly recomputed) than the amount is rejected,     *)
(* by the endpoint and by the service, and leaves every category as it was. *)
C9_TransferRejection ==
    \A r \in TransferRequests :
        LET u == r[1]
            amount == parse_currency(r[2].amount)
            api == transfer_budget(db, today, u, r[2])
            service == BudgetService_transfer_budget(db, today, r[2].from_category_id,
                                                     r[2].to_category_id, amount, u)
        IN  MustReject(db, today, u, r[2].from_category_id, r[2].to_category_id, amount) =>
              /\ api.resp.status \in {400, 404}
              /\ api.db.budget_category = db.budget_category
              /\ service.resp.status = Raised
              /\ service.db.budget_category = db.budget_category

RECURSIVE SumAllocated(_, _)
SumAllocated(categories, cids) ==
    IF cids = {} THEN 0
    ELSE LET c == CHOOSE x \in cids : TRUE IN
         categories[c].allocated_amount + SumAllocated(categories, cids \ {c})

ConservesAllocation(d, o, u, from_category_id, to_category_id, amount) ==
    /\ DOMAIN o.db.budget_category = DOMAIN d.budget_category
    /\ \A c \in DOMAIN d.budget_category :
          /\ o.db.budget_category[c].allocated_amount =
                d.budget_category[c].allocated_amount
                - (IF c = from_category_id THEN amount ELSE 0)
                + (IF c = to_category_id THEN amount ELSE 0)
          /\ c \notin {from_category_id, to_category_id} =>
                o.db.budget_category[c] = d.budget_category[c]
    /\ SumAllocated(o.db.budget_category, OwnCategories(o.db, u))
          = SumAllocated(d.budget_category, OwnCategories(d, u))

(* C10: a successful transfer, by the endpoint or by the service, lowers    *)
(* the source's allocated amount by the amount and raises the               *)
(* destination's by the amount; the caller's total allocation is the same   *)
(* before and after, and no other category changes.                         *)
C10_TransferConservesAllocation ==
    \A r \in TransferRequests :
        LET u == r[1]
            amount == parse_currency(r[2].amount)
            api == transfer_budget(db, today, u, r[2])
            service == BudgetService_transfer_budget(db, today, r[2].from_category_id,
                                                     r[2].to_category_id, amount, u)
        IN  /\ api.resp.status = 200 =>
                  ConservesAllocation(db, api, u, r[2].from_category_id, r[2].to_category_id, amount)
            /\ service.resp.status = Returned =>
                  ConservesAllocation(db, service, u, r[2].from_category_id, r[2].to_category_id, amount)

C10_Witness ==
    /\ last.op = "transfer_budget" /\ last.status = 200
    /\ \E f \in OwnCategories(db, 1) : \E t \in OwnCategories(db, 1) :
          /\ db.budget_category[f].allocated_amount = 200
          /\ db.budget_category[t].allocated_amount = 400
    /\ \E c \in OwnCategories(db, 2) : db.budget_category[c].allocated_amount = 300
    /\ db.transaction # <<>>

(* C11: a successful transfer, by the endpoint or by the service, leaves    *)
(* the source's stored available amount lower by the amount, and the        *)
(* destination's higher by the amount, than they were stored before.        *)
C11_TransferMovesAvailable ==
    \A r \in TransferRequests :
        LET u == r[1]
            from_category_id == r[2].from_category_id
            to_category_id == r[2].to_category_id
            amount == parse_currency(r[2].amount)
            api == transfer_budget(db, today, u, r[2])
            service == BudgetService_transfer_budget(db, today, from_category_id, to_category_id, amount, u)
            Moved(o) ==
                /\ AvailableOf(o.db, from_category_id) = AvailableOf(db, from_category_id) - amount
                /\ AvailableOf(o.db, to_category_id) = AvailableOf(db, to_category_id) + amount
        IN  /\ api.resp.status = 200 => Moved(api)
            /\ (service.resp.status = Returned /\ from_category_id # to_category_id) => Moved(service)

(* ---------------------------------------------------------------------- *)
(* api/budget.py: update_category and delete_category;                     *)
(* services/budget_service.py: BudgetService.allocate_budget               *)
(* ---------------------------------------------------------------------- *)
(* Variant of Reallocate that resets the available amount to the new       *)
(* allocation.                                                             *)
ReallocateResetsAvailable(category, amount) ==
    [category EXCEPT !.allocated_amount = amount, !.available_amount = amount]

Reallocate(category, amount) ==
    LET difference == amount - category.allocated_amount IN
    [category EXCEPT !.allocated_amount = amount, !.available_amount = @ + difference]

update_category(d, u, category_id, data) ==
    LET R(status) == Response("update_category", u, status, category_id)
        Has(k) == k \in data.keys
        name == strip(data.name)
        allocated_amount == parse_currency(data.allocated_amount)
    IN  IF ~OwnsCategory(d, u, category_id) THEN Outcome(d, R(404))
        ELSE IF data.keys = {} THEN Outcome(d, R(400))
        ELSE IF Has("name") /\ name = "" THEN Outcome(d, R(400))
        ELSE IF Has("name") /\ \E c \in OwnCategories(d, u) \ {category_id} : d.budget_category[c].name = name
             THEN Outcome(d, R(400))
        ELSE IF Has("allocated_amount") /\ allocated_amount < 0 THEN Outcome(d, R(400))
        ELSE IF Has("category_type") /\ data.category_type \notin {"income", "expense", "saving"}
             THEN Outcome(d, R(400))
        ELSE LET c0 == d.budget_category[category_id]
                 c1 == IF Has("name") THEN [c0 EXCEPT !.name = name] ELSE c0
                 c2 == IF Has("allocated_amount") THEN Reallocate(c1, allocated_amount) ELSE c1
                 c3 == IF Has("category_type") THEN [c2 EXCEPT !.category_type = data.category_type] ELSE c2
             IN  Outcome([d EXCEPT !.budget_category[category_id] = c3], R(200))

BudgetService_allocate_budget(d, category_id, amount, user_id) ==
    LET R(status) == Response("BudgetService.allocate_budget", user_id, status, category_id) IN
    IF ~OwnsCategory(d, user_id, category_id) THEN Outcome(d, R(Raised))
    ELSE IF amount < 0 THEN Outcome(d, R(Raised))
    ELSE Outcome([d EXCEPT !.budget_category[category_id] = Reallocate(@, amount)], R(Returned))

LinkedTransactions(d, category_id) ==
    {t \in DOMAIN d.transaction : d.transaction[t].category_id = category_id}

delete_category(d, u, category_id) ==
    LET R(status) == Response("delete_category", u, status, category_id) IN
    IF ~OwnsCategory(d, u, category_id) THEN Outcome(d, R(404))
    ELSE IF Cardinality(LinkedTransactions(d, category_id)) > 0 THEN Outcome(d, R(400))
    ELSE Outcome([d EXCEPT !.budget_category = Remove(@, category_id)], R(200))

(* ---------------------------------------------------------------------- *)
(* api/budget.py: create_budget_template, apply_budget_template;           *)
(* models.BudgetTemplate.apply_to_budget.  A template row carries its      *)
(* BudgetTemplateItem rows as the sequence items.  Colours are not         *)
(* modelled.                                                               *)
(* ---------------------------------------------------------------------- *)
RECURSIVE SeqOfSet(_)
SeqOfSet(S) ==
    IF S = {} THEN <<>>
    ELSE LET m == CHOOSE x \in S : \A y \in S : x <= y IN <<m>> \o SeqOfSet(S \ {m})

TemplateItem(category_name, category_type, allocated_amount) ==
    [category_name |-> category_name, category_type |-> category_type, allocated_amount |-> allocated_amount]

create_budget_template(d, u, data) ==
    LET R(status) == Response("create_budget_template", u, status, 0)
        name == strip(data.name)
        own == SeqOfSet(OwnCategories(d, u))
        current == [i \in 1..Len(own) |->
                       TemplateItem(d.budget_category[own[i]].name, d.budget_category[own[i]].category_type,
                                    d.budget_category[own[i]].allocated_amount)]
        custom == [i \in 1..Len(data.items) |->
                       TemplateItem(data.items[i].category_name, data.items[i].category_type,
                                    parse_currency(data.items[i].allocated_amount))]
        Stored(items) == [d EXCEPT !.budget_template = Insert(@, [user_id |-> u, name |-> name, items |-> items])]
    IN  IF name = "" THEN Outcome(d, R(400))
        ELSE IF \E t \in DOMAIN d.budget_template :
                    d.budget_template[t].user_id = u /\ d.budget_template[t].name = name
             THEN Outcome(d, R(400))
        ELSE IF data.from_current_budget
             THEN IF own = <<>> THEN Outcome(d, R(400)) ELSE Outcome(Stored(current), R(201))
        ELSE IF data.items = <<>> THEN Outcome(d, R(400))
        ELSE Outcome(Stored(custom), R(201))

(* db.session.delete of a category: the unit of work first sets the        *)
(* category_id of the transactions in its transactions relationship to     *)
(* NULL (no delete cascade is configured), then deletes the row.           *)
SessionDeleteCategories(d, cids) ==
    [d EXCEPT !.budget_category = [c \in DOMAIN @ \ cids |-> @[c]],
              !.transaction = [t \in DOMAIN @ |->
                                  IF @[t].category_id \in cids
                                  THEN [@[t] EXCEPT !.category_id = NoCategory]
                                  ELSE @[t]]]

(* One item of the template: the first category of the user with the       *)
(* item's name and type (lowest id, the table's scan order) is reset, or   *)
(* a new category is added.                                                *)
ApplyItem(d, user_id, item) ==
    LET matches == {c \in OwnCategories(d, user_id) :
                       /\ d.budget_category[c].name = item.category_name
                       /\ d.budget_category[c].category_type = item.category_type}
    IN  IF matches # {}
        THEN LET existing_cat == CHOOSE c \in matches : \A o \in matches : c <= o IN
             [d EXCEPT !.budget_category[existing_cat] =
                 [@ EXCEPT !.allocated_amount = item.allocated_amount,
                           !.available_amount = item.allocated_amount]]
        ELSE [d EXCEPT !.budget_category = Insert(@,
                 [user_id |-> user_id, name |-> item.category_name,
                  allocated_amount |-> item.allocated_amount, available_amount |-> item.allocated_amount,
                  category_type |-> item.category_type])]

RECURSIVE ApplyItems(_, _, _)
ApplyItems(d, user_id, items) ==
    IF items = <<>> THEN d ELSE ApplyItems(ApplyItem(d, user_id, Head(items)), user_id, Tail(items))

apply_to_budget(d, template, clear_existing) ==
    LET cleared == IF clear_existing
                   THEN SessionDeleteCategories(d, OwnCategories(d, template.user_id))
                   ELSE d
    IN  ApplyItems(cleared, template.user_id, template.items)

apply_budget_template(d, u, template_id, clear_existing) ==
    LET R(status) == Response("apply_budget_template", u, status, template_id) IN
    IF template_id \notin DOMAIN d.budget_template \/ d.budget_template[template_id].user_id # u
    THEN Outcome(d, R(404))
    ELSE Outcome(apply_to_budget(d, d.budget_template[template_id], clear_existing), R(200))

UpdateCategory(Reqs) == \E r \in Reqs : Do(update_category(db, r[1], r[2], r[3]))

ServiceAllocateBudget(Reqs) == \E r \in Reqs : Do(BudgetService_allocate_budget(db, r[2], r[3], r[1]))

DeleteCategory(Reqs) == \E r \in Reqs : Do(delete_category(db, r[1], r[2]))

CreateBudgetTemplate(Reqs) == \E r \in Reqs : Do(create_budget_template(db, r[1], r[2]))

ApplyBudgetTemplate(Reqs) == \E r \in Reqs : Do(apply_budget_template(db, r[1], r[2], r[3]))

(* ---------------------------------------------------------------------- *)
(* SpecBudget: user 1 creates, re-allocates, renames and deletes           *)
(* categories, records expenses against them, and saves and applies a      *)
(* budget template.                                                        *)
(* ---------------------------------------------------------------------- *)
BudgetCategories == {<<1, Category("Food")>>, <<1, Category("Rent")>>}

BudgetCreates == {<<1, [BaseCreate EXCEPT !.category_id = 1]>>}

BaseCategoryPatch == [keys |-> {}, name |-> "", allocated_amount |-> <<>>, category_type |-> ""]

CategoryPatches ==
    {BaseCategoryPatch,
     [BaseCategoryPatch EXCEPT !.keys = {"allocated_amount"}, !.allocated_amount = <<"4">>],
     [BaseCategoryPatch EXCEPT !.keys = {"allocated_amount"}, !.allocated_amount = <<"-", "1">>],
     [BaseCategoryPatch EXCEPT !.keys = {"name"}, !.name = "Rent"],
     [BaseCategoryPatch EXCEPT !.keys = {"allocated_amount", "category_type"},
                               !.allocated_amount = <<"2">>, !.category_type = "bogus"]}

BudgetUpdates == {<<1, c, p>> : c \in 1..2, p \in CategoryPatches}

BudgetAllocations == {<<1, c, a>> : c \in {1, 3}, a \in {200, 0 - 100}}

BudgetDeletes == {<<1, c>> : c \in 1..2}

TemplateCreates ==
    {<<1, [name |-> "T", from_current_budget |-> TRUE, items |-> <<>>]>>,
     <<1, [name |-> "T", from_current_budget |-> FALSE,
           items |-> <<[category_name |-> "Food", category_type |-> "income", allocated_amount |-> <<"2">>]>>]>>}

TemplateApplies == {<<1, 1, clear_existing>> : clear_existing \in BOOLEAN}

NextBudget ==
    \/ CreateCategory(BudgetCategories)
    \/ CreateTransaction(BudgetCreates)
    \/ UpdateCategory(BudgetUpdates)
    \/ ServiceAllocateBudget(BudgetAllocations)
    \/ DeleteCategory(BudgetDeletes)
    \/ CreateBudgetTemplate(TemplateCreates)
    \/ ApplyBudgetTemplate(TemplateApplies)

SpecBudget == Init /\ [][NextBudget]_vars

(* C12: setting a category's allocation to a non-negative amount, through  *)
(* update_category or BudgetService.allocate_budget, stores that amount    *)
(* and moves available by the same difference, so allocated minus          *)
(* available is unchanged and nothing else changes; a negative amount is   *)
(* rejected and changes nothing.                                           *)
SetsAllocated(o, category_id, newAmount) ==
    LET before == db.budget_category[category_id]
        after == o.db.budget_category[category_id]
    IN  /\ after.allocated_amount = newAmount
        /\ after.available_amount = before.available_amount + (newAmount - before.allocated_amount)
        /\ after.allocated_amount - after.available_amount = before.allocated_amount - before.available_amount
        /\ o.db = [db EXCEPT !.budget_category[category_id] = after]

C12_SetAllocated ==
    /\ \A r \in BudgetUpdates :
          ("allocated_amount" \in r[3].keys /\ OwnsCategory(db, r[1], r[2])) =>
              LET o == update_category(db, r[1], r[2], r[3])
                  newAmount == parse_currency(r[3].allocated_amount)
              IN  /\ newAmount < 0 => (o.resp.status = 400 /\ o.db = db)
                  /\ (newAmount >= 0 /\ r[3].keys = {"allocated_amount"}) => o.resp.status = 200
                  /\ o.resp.status = 200 => SetsAllocated(o, r[2], newAmount)
    /\ \A r \in BudgetAllocations :
          OwnsCategory(db, r[1], r[2]) =>
              LET o == BudgetService_allocate_budget(db, r[2], r[3], r[1]) IN
              /\ r[3] < 0 => (o.resp.status = Raised /\ o.db = db)
              /\ r[3] >= 0 => (o.resp.status = Returned /\ SetsAllocated(o, r[2], r[3]))

C12_Witness ==
    /\ last.op = "update_category"
    /\ last.status = 200
    /\ \E c \in DOMAIN db.budget_category :
          /\ db.budget_category[c].allocated_amount = 400
          /\ db.budget_category[c].available_amount = 300

(* C13: a category that has at least one linked transaction is never       *)
(* removed: no category operation removes its row or unlinks its           *)
(* transactions, a rejected delete_category changes nothing, and a         *)
(* delete_category that succeeds removes one category that had no          *)
(* transactions.                                                           *)
C13_LinkedCategoryKept ==
    [][/\ \A c \in DOMAIN db.budget_category :
             (LinkedTransactions(db, c) # {}
              /\ last'.op \in {"delete_category", "apply_budget_template", "update_category"}) =>
                 /\ c \in DOMAIN db'.budget_category
                 /\ LinkedTransactions(db', c) = LinkedTransactions(db, c)
       /\ (last'.op = "delete_category" /\ last'.status # 200) => db' = db
       /\ (last'.op = "delete_category" /\ last'.status = 200) =>
             \E c \in DOMAIN db.budget_category :
                 /\ LinkedTransactions(db, c) = {}
                 /\ db' = [db EXCEPT !.budget_category = Remove(@, c)]]_vars

(* C14: no user has two categories with the same name.                     *)
C14_UniqueCategoryNames ==
    \A c1, c2 \in DOMAIN db.budget_category :
        (/\ db.budget_category[c1].user_id = db.budget_category[c2].user_id
         /\ db.budget_category[c1].name = db.budget_category[c2].name) => c1 = c2

(* ---------------------------------------------------------------------- *)
(* services/recurring_service.py: dates of occurrences.  timedelta adds    *)
(* days; relativedelta adds months or years and then clamps the day to     *)
(* the length of the month reached.                                        *)
(* ---------------------------------------------------------------------- *)
NextDay(date) ==
    IF date[3] < monthrange(date[1], date[2]) THEN <<date[1], date[2], date[3] + 1>>
    ELSE IF date[2] < 12 THEN <<date[1], date[2] + 1, 1>>
    ELSE <<date[1] + 1, 1, 1>>

RECURSIVE timedelta(_, _)
timedelta(date, days) == IF days = 0 THEN date ELSE timedelta(NextDay(date), days - 1)

(* Variant of relativedelta that keeps the day of the month whatever the   *)
(* month reached.                                                          *)
relativedeltaUnclamped(date, months) ==
    LET total == 12 * date[1] + (date[2] - 1) + months IN
    <<total \div 12, (total % 12) + 1, date[3]>>

relativedelta(date, months) ==
    LET total == 12 * date[1] + (date[2] - 1) + months
        year == total \div 12
        month == (total % 12) + 1
    IN  <<year, month, IF date[3] > monthrange(year, month) THEN monthrange(year, month) ELSE date[3]>>

period_mapping ==
    [daily |-> [days |-> 1, months |-> 0], weekly |-> [days |-> 7, months |-> 0],
     biweekly |-> [days |-> 14, months |-> 0], monthly |-> [days |-> 0, months |-> 1],
     quarterly |-> [days |-> 0, months |-> 3], yearly |-> [days |-> 0, months |-> 12]]

(* get_next_occurrence_date raises ValueError for a period that is not a   *)
(* key of period_mapping; callers test IsPeriod first.                     *)
IsPeriod(period) == period \in DOMAIN period_mapping

get_next_occurrence_date(last_date, period) ==
    LET delta_params == period_mapping[period] IN
    IF delta_params.months > 0 THEN relativedelta(last_date, delta_params.months)
    ELSE timedelta(last_date, delta_params.days)

should_create_occurrence(last_date, period, current_date) ==
    DateLE(get_next_occurrence_date(last_date, period), current_date)

create_recurring_occurrence(d, template_id) ==
    LET template_transaction == d.transaction[template_id]
        next_date == get_next_occurrence_date(template_transaction.transaction_date,
                                              template_transaction.recurring_period)
        new_transaction ==
            [template_transaction EXCEPT !.description = @ \o " (Auto-generated)",
                                         !.transaction_date = next_date,
                                         !.recurring = FALSE, !.recurring_period = ""]
    IN  [d EXCEPT !.transaction =
            Insert([@ EXCEPT ![template_id].transaction_date = next_date], new_transaction)]

SafetyLimit == 365

(* The while loop that counts the missed occurrences, one evaluation of    *)
(* its condition and body at a time: s carries check_date, the counter and *)
(* whether the loop is still running.                                      *)
CatchUpStepUncapped(s, period, current_date) ==
    IF ~s.running THEN s
    ELSE IF ~should_create_occurrence(s.check_date, period, current_date)
    THEN [s EXCEPT !.running = FALSE]
    ELSE [s EXCEPT !.occurrences_to_create = @ + 1,
                   !.check_date = get_next_occurrence_date(s.check_date, period)]

CatchUpStep(s, period, current_date) ==
    IF ~s.running THEN s
    ELSE IF ~should_create_occurrence(s.check_date, period, current_date)
    THEN [s EXCEPT !.running = FALSE]
    ELSE IF s.occurrences_to_create + 1 > SafetyLimit
    THEN [s EXCEPT !.occurrences_to_create = SafetyLimit,
                   !.check_date = get_next_occurrence_date(s.check_date, period),
                   !.running = FALSE]
    ELSE [s EXCEPT !.occurrences_to_create = @ + 1,
                   !.check_date = get_next_occurrence_date(s.check_date, period)]

(* steps evaluations of the loop in a row, the first half then the second. *)
RECURSIVE CatchUpLoop(_, _, _, _)
CatchUpLoop(s, period, current_date, steps) ==
    IF steps = 0 THEN s
    ELSE IF steps = 1 THEN CatchUpStep(s, period, current_date)
    ELSE LET half == CatchUpLoop(s, period, current_date, steps \div 2)
         IN  IF ~half.running THEN half
             ELSE CatchUpLoop(half, period, current_date, steps - steps \div 2)

(* The loop as far as SafetyLimit + 1 evaluations take it: with the limit  *)
(* in place it has stopped by then.                                        *)
CatchUp(check_date, period, current_date, counted) ==
    CatchUpLoop([check_date |-> check_date, occurrences_to_create |-> counted, running |-> TRUE],
                period, current_date, SafetyLimit + 1)

occurrences_to_create(check_date, period, current_date, counted) ==
    CatchUp(check_date, period, current_date, counted).occurrences_to_create

(* One pass of the for loop: st carries the session's rows, the counters   *)
(* and the dates reported.  A dry run reports the next date and moves the  *)
(* loaded template's transaction_date to it; a real run creates the row.   *)
OccurrenceStep(st, template_id, dry_run) ==
    LET template == st.db.transaction[template_id]
        next_date == get_next_occurrence_date(template.transaction_date, template.recurring_period)
        created == create_recurring_occurrence(st.db, template_id)
    IN  IF dry_run
        THEN [st EXCEPT !.db.transaction[template_id].transaction_date = next_date,
                        !.created = @ + 1,
                        !.dates = Append(@, next_date)]
        ELSE [st EXCEPT !.db = created,
                        !.created = @ + 1,
                        !.dates = Append(@, created.transaction[NextId(st.db.transaction)].transaction_date)]

(* range(occurrences_to_create): n passes in a row, the first half then    *)
(* the second.                                                             *)
RECURSIVE CreateOccurrences(_, _, _, _)
CreateOccurrences(st, template_id, n, dry_run) ==
    IF n = 0 THEN st
    ELSE IF n = 1 THEN OccurrenceStep(st, template_id, dry_run)
    ELSE LET half == CreateOccurrences(st, template_id, n \div 2, dry_run)
         IN  IF template_id \notin DOMAIN half.db.transaction THEN half
             ELSE CreateOccurrences(half, template_id, n - n \div 2, dry_run)

RecurringTemplates(d) == {t \in DOMAIN d.transaction : d.transaction[t].recurring}

(* One pass of the service's loop over the templates loaded at the start,  *)
(* in id order.  A template with an unknown period raises inside the try   *)
(* block and is counted as an error; in a real run the others are          *)
(* committed one by one.                                                   *)
RECURSIVE ProcessTemplates(_, _, _, _)
ProcessTemplates(st, templates, current_date, dry_run) ==
    IF templates = <<>> THEN st
    ELSE LET template == st.db.transaction[Head(templates)] IN
         IF ~IsPeriod(template.recurring_period)
         THEN ProcessTemplates([st EXCEPT !.errors = @ + 1], Tail(templates), current_date, dry_run)
         ELSE LET n == occurrences_to_create(template.transaction_date, template.recurring_period,
                                             current_date, 0)
              IN  ProcessTemplates(CreateOccurrences(st, Head(templates), n, dry_run),
                                   Tail(templates), current_date, dry_run)

(* The rows are returned as the session holds them when the call returns:  *)
(* after a real run they are committed; after a dry run the templates      *)
(* carry the dates assigned in the loop, uncommitted.                      *)
process_all_recurring_transactions(d, now, dry_run) ==
    LET st == ProcessTemplates([db |-> d, created |-> 0, errors |-> 0, dates |-> <<>>],
                               SeqOfSet(RecurringTemplates(d)), now, dry_run)
        resp == [Response("process_all_recurring_transactions", 0, Returned, 0)
                    EXCEPT !.created_count = st.created, !.errors = st.errors,
                           !.created_transactions = st.dates, !.dry_run = dry_run]
    IN  Outcome(st.db, resp)

(* The call made in an application context of its own: the session is      *)
(* removed with the context, and what a dry run left in it is discarded.   *)
InOwnContext(d, o) == IF o.resp.dry_run THEN Outcome(d, o.resp) ELSE o

(* ---------------------------------------------------------------------- *)
(* api/transactions.py: process_recurring_transactions and                 *)
(* stop_recurring_transaction                                              *)
(* ---------------------------------------------------------------------- *)
RECURSIVE CreateDue(_, _, _)
CreateDue(d, templates, now) ==
    IF templates = <<>> THEN d
    ELSE LET template == d.transaction[Head(templates)] IN
         CreateDue(IF should_create_occurrence(template.transaction_date, template.recurring_period, now)
                   THEN create_recurring_occurrence(d, Head(templates))
                   ELSE d,
                   Tail(templates), now)

(* The date reported for each due template, in the order of the loop.      *)
NextDates(d, templates) ==
    [i \in 1..Len(templates) |->
        get_next_occurrence_date(d.transaction[templates[i]].transaction_date,
                                 d.transaction[templates[i]].recurring_period)]

process_recurring_transactions(d, now, u, dry_run) ==
    LET user_recurring == {t \in RecurringTemplates(d) : d.transaction[t].user_id = u}
        due == {t \in user_recurring :
                   should_create_occurrence(d.transaction[t].transaction_date,
                                            d.transaction[t].recurring_period, now)}
        R(status) == Response("process_recurring_transactions", u, status, 0)
    IN  IF \E t \in user_recurring : ~IsPeriod(d.transaction[t].recurring_period)
        THEN Outcome(d, R(500))
        ELSE Outcome(IF dry_run THEN d ELSE CreateDue(d, SeqOfSet(user_recurring), now),
                     [R(200) EXCEPT !.created_count = Cardinality(due),
                                    !.created_transactions = NextDates(d, SeqOfSet(due)),
                                    !.dry_run = dry_run])

(* Variant of Stopped that clears the flag and keeps the period.           *)
StoppedKeepsPeriod(transaction) == [transaction EXCEPT !.recurring = FALSE]

Stopped(transaction) == [transaction EXCEPT !.recurring = FALSE, !.recurring_period = ""]

stop_recurring_transaction(d, u, transaction_id) ==
    LET R(status) == Response("stop_recurring_transaction", u, status, transaction_id) IN
    IF \/ transaction_id \notin DOMAIN d.transaction
       \/ d.transaction[transaction_id].user_id # u
       \/ ~d.transaction[transaction_id].recurring
    THEN Outcome(d, R(404))
    ELSE Outcome([d EXCEPT !.transaction[transaction_id] = Stopped(@)], R(200))

(* ---------------------------------------------------------------------- *)
(* SpecRecurring: user 1 enters recurring transactions, the service and    *)
(* the endpoint materialise their occurrences, and users stop or re-arm    *)
(* them.  The table holds at most MaxSchedule transactions, of which at    *)
(* most MaxRecurring are recurring.                                        *)
(* ---------------------------------------------------------------------- *)
ScheduleBounds(d) ==
    /\ DOMAIN d.budget_category \subseteq 1..MaxCategories
    /\ DOMAIN d.transaction \subseteq 1..MaxSchedule
    /\ Cardinality(RecurringTemplates(d)) <= MaxRecurring

Schedule(o) ==
    /\ ScheduleBounds(o.db)
    /\ db' = o.db
    /\ last' = o.resp
    /\ UNCHANGED <<today, calendar, sessions>>

RecurringCategories == {<<1, Category("Food")>>}

Recurring(period, date, category_id) ==
    [BaseCreate EXCEPT !.recurring = TRUE, !.recurring_period = period, !.transaction_date = date,
                       !.category_id = category_id]

RecurringCreates ==
    {<<1, Recurring("monthly", <<2024, 1, 15>>, 1)>>,
     <<1, Recurring("weekly", <<2024, 4, 10>>, NoCategory)>>,
     <<1, Recurring("monthly", <<2024, 3, 31>>, NoCategory)>>}

Rearm(period) ==
    [keys |-> IF period = "" THEN {"recurring"} ELSE {"recurring", "recurring_period"},
     amount |-> <<>>, description |-> "", transaction_type |-> "", category_id |-> NoCategory,
     transaction_date |-> NoDate, account |-> "", recurring |-> TRUE, recurring_period |-> period]

RecurringUpdates == {<<1, 1, Rearm(period)>> : period \in {"", "monthly"}}

RecurringStops == {<<u, t>> : u \in Users, t \in 1..2}

AddCategory == \E r \in RecurringCategories : Schedule(create_category(db, r[1], r[2]))

AddRecurring == \E r \in RecurringCreates : Schedule(create_transaction(db, today, r[1], r[2]))

RearmRecurring == \E r \in RecurringUpdates : Schedule(update_transaction(db, r[1], r[2], r[3]))

ProcessAllRecurring ==
    \E dry_run \in BOOLEAN :
       Schedule(InOwnContext(db, process_all_recurring_transactions(db, today, dry_run)))

ProcessRecurring ==
    \E u \in Users, dry_run \in BOOLEAN : Schedule(process_recurring_transactions(db, today, u, dry_run))

StopRecurring == \E r \in RecurringStops : Schedule(stop_recurring_transaction(db, r[1], r[2]))

NextRecurring ==
    \/ AddCategory
    \/ AddRecurring
    \/ RearmRecurring
    \/ ProcessAllRecurring
    \/ ProcessRecurring
    \/ StopRecurring

SpecRecurring == Init /\ [][NextRecurring]_vars

(* The successive dates after anchor, each the next occurrence date of the *)
(* one before, that are on or before asOf.                                 *)
RECURSIVE DueDates(_, _, _)
DueDates(anchor, period, asOf) ==
    IF should_create_occurrence(anchor, period, asOf)
    THEN <<get_next_occurrence_date(anchor, period)>>
             \o DueDates(get_next_occurrence_date(anchor, period), period, asOf)
    ELSE <<>>

RECURSIVE TotalDue(_, _, _)
TotalDue(d, templates, asOf) ==
    IF templates = {} THEN 0
    ELSE LET t == CHOOSE x \in templates : TRUE IN
         Len(DueDates(d.transaction[t].transaction_date, d.transaction[t].recurring_period, asOf))
             + TotalDue(d, templates \ {t}, asOf)

NewTransactions(o) == DOMAIN o.db.transaction \ DOMAIN db.transaction

CatchesUp(o, templates) ==
    /\ Cardinality(NewTransactions(o)) = TotalDue(db, templates, today)
    /\ \A t \in templates :
          LET template == db.transaction[t]
              due == DueDates(template.transaction_date, template.recurring_period, today)
          IN  /\ o.db.transaction[t].transaction_date =
                     (IF due = <<>> THEN template.transaction_date ELSE due[Len(due)])
              /\ \A i \in 1..Len(due) :
                    \E n \in NewTransactions(o) :
                        o.db.transaction[n] =
                            [template EXCEPT !.description = @ \o " (Auto-generated)",
                                             !.transaction_date = due[i],
                                             !.recurring = FALSE, !.recurring_period = ""]

ValidTemplates(d) == {t \in RecurringTemplates(d) : IsPeriod(d.transaction[t].recurring_period)}

(* C15: one pass that is not a dry run, by the service or by the endpoint, *)
(* creates for every recurring template one occurrence at each successive  *)
(* due date up to today and leaves the template dated at the last of them. *)
C15_CatchUp ==
    /\ CatchesUp(process_all_recurring_transactions(db, today, FALSE), ValidTemplates(db))
    /\ \A u \in Users :
          LET o == process_recurring_transactions(db, today, u, FALSE) IN
          o.resp.status = 200 =>
              CatchesUp(o, {t \in ValidTemplates(db) : db.transaction[t].user_id = u})

(* C16: a second pass run straight after a first one, on the same day,     *)
(* creates no occurrence and changes no date.                              *)
C16_SecondPassIdle ==
    /\ LET first == process_all_recurring_transactions(db, today, FALSE)
           second == process_all_recurring_transactions(first.db, today, FALSE)
       IN  second.db = first.db /\ second.resp.created_count = 0
    /\ \A u \in Users :
          LET first == process_recurring_transactions(db, today, u, FALSE)
              second == process_recurring_transactions(first.db, today, u, FALSE)
          IN  second.db = first.db /\ second.resp.created_count = 0

(* C17: a pass charges every expense occurrence it creates to the          *)
(* occurrence's category: the category's available amount falls by the sum *)
(* of the amounts of the new expense transactions linked to it.            *)
C17_OccurrencesCharged ==
    [][last'.op \in {"process_all_recurring_transactions", "process_recurring_transactions"} =>
          \A c \in DOMAIN db.budget_category :
              db'.budget_category[c].available_amount =
                  db.budget_category[c].available_amount
                      - SumAmounts(db'.transaction,
                                   {n \in DOMAIN db'.transaction \ DOMAIN db.transaction :
                                       /\ db'.transaction[n].category_id = c
                                       /\ db'.transaction[n].transaction_type = "expense"})]_vars

(* C19: stopping a recurring transaction of the caller clears its          *)
(* recurring flag and its period and changes nothing else; any other stop  *)
(* request is answered 404 and changes nothing; and from then on, as for   *)
(* every transaction whose recurring flag is off, no pass of the service   *)
(* or of the endpoint changes it or creates an occurrence from it: a pass  *)
(* leaves it as it is and creates no more transactions than the recurring  *)
(* templates have due dates.                                               *)
CanStop(d, u, transaction_id) ==
    /\ transaction_id \in DOMAIN d.transaction
    /\ d.transaction[transaction_id].user_id = u
    /\ d.transaction[transaction_id].recurring

AnchorDates == {date \in {<<y, m, day>> : y \in 2023..2024, m \in 1..12, day \in 1..31} : IsDate(date)}

InitCalendar ==
    /\ db = [budget_category |-> <<>>, transaction |-> <<>>, budget_template |-> <<>>,
             account_reconciliation |-> <<>>, reconciliation_item |-> <<>>]
    /\ today = StartDate
    /\ last = Response("init", 0, 0, 0)
    /\ calendar \in {[anchor |-> a, period |-> p, date |-> a, steps |-> 0] :
                        a \in AnchorDates, p \in {"monthly", "yearly"}}
    /\ sessions = NoSessions

NextOccurrenceDate ==
    /\ calendar.steps < MaxSteps
    /\ calendar' = [calendar EXCEPT !.date = get_next_occurrence_date(@, calendar.period),
                                    !.steps = @ + 1]
    /\ UNCHANGED <<db, today, last, sessions>>

SpecCalendar == InitCalendar /\ [][NextOccurrenceDate]_vars

(* C18 as stated: twelve monthly steps from any anchor give the anchor's   *)
(* month and day one year later, and the month after 2024-01-31 is         *)
(* 2024-02-29.                                                             *)
C18_YearLater ==
    /\ get_next_occurrence_date(<<2024, 1, 31>>, "monthly") = <<2024, 2, 29>>
    /\ (calendar.period = "monthly" /\ calendar.steps = 12) =>
           calendar.date = <<calendar.anchor[1] + 1, calendar.anchor[2], calendar.anchor[3]>>

(* C18 amended: every date reached is a date of the calendar; twelve       *)
(* monthly steps give the anchor's month one year later, on the anchor's   *)
(* day when it is at most 28 and otherwise on that day cut down to the     *)
(* length of the February passed on the way; and the month after           *)
(* 2024-01-31 is 2024-02-29.                                               *)
C18_YearLaterClamped ==
    /\ get_next_occurrence_date(<<2024, 1, 31>>, "monthly") = <<2024, 2, 29>>
    /\ calendar.steps > 0 => IsDate(calendar.date)
    /\ (calendar.period = "monthly" /\ calendar.steps = 12) =>
           LET anchor == calendar.anchor
               february == monthrange(IF anchor[2] = 1 THEN anchor[1] ELSE anchor[1] + 1, 2)
           IN  /\ calendar.date =
                      <<anchor[1] + 1, anchor[2], IF anchor[3] > february THEN february ELSE anchor[3]>>
               /\ anchor[3] <= 28 => calendar.date[3] = anchor[3]

C18_Witness ==
    /\ calendar.period = "monthly"
    /\ calendar.steps = 12
    /\ calendar.anchor = <<2024, 1, 31>>
    /\ calendar.date = <<2025, 1, 29>>

(* ---------------------------------------------------------------------- *)
(* api/reconciliation.py: create_reconciliation.  data.keys holds the      *)
(* keys of the body whose value is not null; the statement date is given   *)
(* as the year, month and day that its ISO text spells.                    *)
(* ---------------------------------------------------------------------- *)
Accounts == {"checking", "savings", "credit", "cash"}

(* Variant of StatementTransactions that takes every account.              *)
StatementTransactionsAnyAccount(d, u, account, statement_date) ==
    {t \in DOMAIN d.transaction :
        /\ d.transaction[t].user_id = u
        /\ DateLE(d.transaction[t].transaction_date, statement_date)}

StatementTransactions(d, u, account, statement_date) ==
    {t \in DOMAIN d.transaction :
        /\ d.transaction[t].user_id = u
        /\ d.transaction[t].account = account
        /\ DateLE(d.transaction[t].transaction_date, statement_date)}

RECURSIVE AddItems(_, _, _)
AddItems(items, reconciliation_id, transactions) ==
    IF transactions = <<>> THEN items
    ELSE AddItems(Insert(items, [reconciliation_id |-> reconciliation_id,
                                 transaction_id |-> Head(transactions), cleared |-> FALSE]),
                  reconciliation_id, Tail(transactions))

create_reconciliation(d, u, data) ==
    LET R(status) == Response("create_reconciliation", u, status, 0)
        statement_balance == parse_currency(data.statement_balance)
        recon == [user_id |-> u, account |-> data.account, statement_date |-> data.statement_date,
                  statement_balance |-> statement_balance, book_balance |-> 0,
                  difference |-> statement_balance, reconciled |-> FALSE, reconciled_at |-> NoDate]
        transactions == SeqOfSet(StatementTransactions(d, u, data.account, data.statement_date))
    IN  IF data.keys = {} THEN Outcome(d, R(400))
        ELSE IF data.account = "" \/ data.statement_date = NoDate \/ "statement_balance" \notin data.keys
             THEN Outcome(d, R(400))
        ELSE IF data.account \notin Accounts THEN Outcome(d, R(400))
        ELSE IF ~IsDate(data.statement_date) THEN Outcome(d, R(400))
        ELSE Outcome([d EXCEPT !.account_reconciliation = Insert(@, recon),
                               !.reconciliation_item =
                                   AddItems(@, NextId(d.account_reconciliation), transactions)],
                     R(201))

CreateReconciliation(Reqs) == \E r \in Reqs : Do(create_reconciliation(db, r[1], r[2]))

(* ---------------------------------------------------------------------- *)
(* SpecReconciliation: two users enter transactions on two accounts, this  *)
(* month and last month, and open reconciliations.                         *)
(* ---------------------------------------------------------------------- *)
StatementCreates ==
    {<<1, [BaseCreate EXCEPT !.account = a, !.transaction_date = date]>> :
        a \in {"checking", "savings"}, date \in {NoDate, LastMonthDate}}
    \cup {<<2, BaseCreate>>}

Statement(account, statement_date, statement_balance) ==
    [keys |-> {"account", "statement_date", "statement_balance"}, account |-> account,
     statement_date |-> statement_date, statement_balance |-> statement_balance]

StatementRequests ==
    {<<u, Statement("checking", date, <<"2">>)>> : u \in Users, date \in {LastMonthDate, StartDate}}
    \cup {<<1, Statement("savings", LastMonthDate, <<"0">>)>>,
          <<1, Statement("bogus", StartDate, <<"2">>)>>,
          <<1, Statement("checking", BadDate, <<"2">>)>>,
          <<1, Statement("checking", NoDate, <<"2">>)>>,
          <<1, [Statement("checking", StartDate, <<>>) EXCEPT !.keys = {"account", "statement_date"}]>>}

NextReconciliation ==
    \/ CreateTransaction(StatementCreates)
    \/ CreateReconciliation(StatementRequests)

SpecReconciliation == Init /\ [][NextReconciliation]_vars

ItemsOf(d, reconciliation_id) ==
    {i \in DOMAIN d.reconciliation_item : d.reconciliation_item[i].reconciliation_id = reconciliation_id}

SignedAmount(transaction) ==
    IF transaction.transaction_type = "income" THEN transaction.amount ELSE 0 - transaction.amount

RECURSIVE ClearedTotal(_, _)
ClearedTotal(d, items) ==
    IF items = {} THEN 0
    ELSE LET i == CHOOSE j \in items : TRUE IN
         (IF d.reconciliation_item[i].cleared
          THEN SignedAmount(d.transaction[d.reconciliation_item[i].transaction_id])
          ELSE 0) + ClearedTotal(d, items \ {i})

(* Variant of calculate_balances that never marks the reconciliation       *)
(* reconciled.                                                             *)
calculate_balancesNoAutoMark(d, reconciliation_id, now) ==
    LET recon == d.account_reconciliation[reconciliation_id]
        book_balance == ClearedTotal(d, ItemsOf(d, reconciliation_id))
    IN  [recon EXCEPT !.book_balance = book_balance, !.difference = recon.statement_balance - book_balance]

calculate_balances(d, reconciliation_id, now) ==
    LET recon == d.account_reconciliation[reconciliation_id]
        book_balance == ClearedTotal(d, ItemsOf(d, reconciliation_id))
        difference == recon.statement_balance - book_balance
        balanced == [recon EXCEPT !.book_balance = book_balance, !.difference = difference]
    IN  IF difference = 0 /\ ~recon.reconciled
        THEN [balanced EXCEPT !.reconciled = TRUE, !.reconciled_at = now]
        ELSE balanced

(* Variant of IsClosed for which no reconciliation is closed.              *)
IsClosedNever(recon) == FALSE

IsClosed(recon) == recon.reconciled

OwnsReconciliation(d, u, reconciliation_id) ==
    /\ reconciliation_id \in DOMAIN d.account_reconciliation
    /\ d.account_reconciliation[reconciliation_id].user_id = u

toggle_reconciliation_item(d, now, u, reconciliation_id, item_id) ==
    LET R(status) == Response("toggle_reconciliation_item", u, status, item_id) IN
    IF ~OwnsReconciliation(d, u, reconciliation_id) THEN Outcome(d, R(404))
    ELSE IF IsClosed(d.account_reconciliation[reconciliation_id]) THEN Outcome(d, R(400))
    ELSE IF item_id \notin ItemsOf(d, reconciliation_id) THEN Outcome(d, R(404))
    ELSE LET toggled == [d EXCEPT !.reconciliation_item[item_id].cleared = ~@] IN
         Outcome([toggled EXCEPT !.account_reconciliation[reconciliation_id] =
                                     calculate_balances(toggled, reconciliation_id, now)],
                 R(200))

(* Variant of complete_reconciliation that closes whatever the difference. *)
complete_reconciliationUnchecked(d, now, u, reconciliation_id) ==
    LET R(status) == Response("complete_reconciliation", u, status, reconciliation_id) IN
    IF ~OwnsReconciliation(d, u, reconciliation_id) THEN Outcome(d, R(404))
    ELSE IF IsClosed(d.account_reconciliation[reconciliation_id]) THEN Outcome(d, R(400))
    ELSE Outcome([d EXCEPT !.account_reconciliation[reconciliation_id] =
                               [calculate_balances(d, reconciliation_id, now)
                                    EXCEPT !.reconciled = TRUE, !.reconciled_at = now]],
                 R(200))

complete_reconciliation(d, now, u, reconciliation_id) ==
    LET R(status) == Response("complete_reconciliation", u, status, reconciliation_id) IN
    IF ~OwnsReconciliation(d, u, reconciliation_id) THEN Outcome(d, R(404))
    ELSE IF IsClosed(d.account_reconciliation[reconciliation_id]) THEN Outcome(d, R(400))
    ELSE LET recon == calculate_balances(d, reconciliation_id, now) IN
         IF recon.difference # 0 THEN Outcome(d, R(400))
         ELSE Outcome([d EXCEPT !.account_reconciliation[reconciliation_id] =
                                    [recon EXCEPT !.reconciled = TRUE, !.reconciled_at = now]],
                      R(200))

(* The items of the reconciliation are deleted with it (delete-orphan      *)
(* cascade of AccountReconciliation.items).                                *)
delete_reconciliation(d, u, reconciliation_id) ==
    LET R(status) == Response("delete_reconciliation", u, status, reconciliation_id) IN
    IF ~OwnsReconciliation(d, u, reconciliation_id) THEN Outcome(d, R(404))
    ELSE Outcome([d EXCEPT !.account_reconciliation = Remove(@, reconciliation_id),
                           !.reconciliation_item =
                               [i \in DOMAIN @ \ ItemsOf(d, reconciliation_id) |-> @[i]]],
                 R(200))

ToggleReconciliationItem(Reqs) ==
    \E r \in Reqs : Do(toggle_reconciliation_item(db, today, r[1], r[2], r[3]))

CompleteReconciliation(Reqs) == \E r \in Reqs : Do(complete_reconciliation(db, today, r[1], r[2]))

DeleteReconciliation(Reqs) == \E r \in Reqs : Do(delete_reconciliation(db, r[1], r[2]))

(* ---------------------------------------------------------------------- *)
(* SpecClosure: user 1 enters an income and an expense on the checking     *)
(* account, opens reconciliations for it, clears and unclears their items, *)
(* completes and deletes them; user 2 tries the same requests.             *)
(* ---------------------------------------------------------------------- *)
ClosureCreates == {<<1, [BaseCreate EXCEPT !.transaction_type = t]>> : t \in {"income", "expense"}}

ClosureStatements == {<<1, Statement("checking", StartDate, b)>> : b \in {<<"1">>, <<"0">>}}

ClosureToggles == {<<u, id, item>> : u \in Users, id \in 1..2, item \in 1..4}

ClosureCompletes == {<<u, id>> : u \in Users, id \in 1..2}

ClosureDeletes == {<<1, id>> : id \in 1..2}

NextClosure ==
    \/ CreateTransaction(ClosureCreates)
    \/ CreateReconciliation(ClosureStatements)
    \/ ToggleReconciliationItem(ClosureToggles)
    \/ CompleteReconciliation(ClosureCompletes)
    \/ DeleteReconciliation(ClosureDeletes)

SpecClosure == Init /\ [][NextClosure]_vars

(* C21: a reconciliation that is reconciled stays reconciled for as long   *)
(* as it exists, and every toggle or complete request that names a         *)
(* reconciled reconciliation is rejected and changes nothing.              *)
NamesClosed(d, reconciliation_id) ==
    /\ reconciliation_id \in DOMAIN d.account_reconciliation
    /\ d.account_reconciliation[reconciliation_id].reconciled

C21_ClosedStaysClosed ==
    /\ [](/\ \A r \in ClosureToggles :
                NamesClosed(db, r[2]) =>
                    LET o == toggle_reconciliation_item(db, today, r[1], r[2], r[3]) IN
                    o.resp.status \in {400, 404} /\ o.db = db
          /\ \A r \in ClosureCompletes :
                NamesClosed(db, r[2]) =>
                    LET o == complete_reconciliation(db, today, r[1], r[2]) IN
                    o.resp.status \in {400, 404} /\ o.db = db)
    /\ [][\A id \in DOMAIN db.account_reconciliation \cap DOMAIN db'.account_reconciliation :
              db.account_reconciliation[id].reconciled =>
                  /\ db'.account_reconciliation[id] = db.account_reconciliation[id]
                  /\ \A i \in ItemsOf(db, id) :
                         i \in DOMAIN db'.reconciliation_item
                         /\ db'.reconciliation_item[i] = db.reconciliation_item[i]]_vars

C21_Witness ==
    /\ last.op = "toggle_reconciliation_item"
    /\ last.status = 400
    /\ \E id \in DOMAIN db.account_reconciliation :
          /\ db.account_reconciliation[id].reconciled
          /\ db.account_reconciliation[id].book_balance = 100

(* C22: an accepted toggle flips the one item and leaves the               *)
(* reconciliation with book balance equal to the sum of +amount over its   *)
(* cleared income items and -amount over its cleared expense items,        *)
(* difference equal to statement balance minus book balance, and           *)
(* reconciled, with a timestamp, exactly when the difference is zero.      *)
RECURSIVE SignedSum(_, _)
SignedSum(d, items) ==
    IF items = {} THEN 0
    ELSE LET i == CHOOSE j \in items : TRUE
             transaction == d.transaction[d.reconciliation_item[i].transaction_id]
         IN  (IF transaction.transaction_type = "income" THEN transaction.amount
              ELSE IF transaction.transaction_type = "expense" THEN 0 - transaction.amount
              ELSE 0) + SignedSum(d, items \ {i})

C23_CompleteIffBalanced ==
    \A r \in ClosureCompletes :
        (OwnsReconciliation(db, r[1], r[2]) /\ ~db.account_reconciliation[r[2]].reconciled) =>
            LET o == complete_reconciliation(db, today, r[1], r[2])
                recon == db.account_reconciliation[r[2]]
                cleared == {i \in DOMAIN db.reconciliation_item :
                               /\ db.reconciliation_item[i].reconciliation_id = r[2]
                               /\ db.reconciliation_item[i].cleared}
                difference == recon.statement_balance - SignedSum(db, cleared)
            IN  IF difference = 0
                THEN /\ o.resp.status = 200
                     /\ o.db = [db EXCEPT !.account_reconciliation[r[2]] =
                                   [recon EXCEPT !.book_balance = SignedSum(db, cleared), !.difference = 0,
                                                 !.reconciled = TRUE, !.reconciled_at = today]]
                ELSE o.resp.status = 400 /\ o.db = db

C23_Witness ==
    /\ last.op = "complete_reconciliation"
    /\ last.status = 200
    /\ \E id \in DOMAIN db.account_reconciliation :
          /\ db.account_reconciliation[id].reconciled
          /\ db.account_reconciliation[id].difference = 0
          /\ db.account_reconciliation[id].reconciled_at = StartDate


(* ---------------------------------------------------------------------- *)
(* Update: reversal on the pre-patch category, application on the          *)
(* post-patch category.                                                    *)
(* ---------------------------------------------------------------------- *)

ExpenseOn(transaction, c) ==
    IF transaction.transaction_type = "expense" /\ transaction.category_id = c
    THEN transaction.amount
    ELSE 0

(* C24: an accepted update credits the pre-patch amount to the pre-patch   *)
(* category when the pre-patch type was expense and debits the post-patch  *)
(* amount from the post-patch category when the post-patch type is         *)
(* expense; every other category, and every other field, is left alone.    *)
C24_UpdateMovesImpact ==
    [][(last'.op = "update_transaction" /\ last'.status = 200) =>
          \E t \in DOMAIN db.transaction \cap DOMAIN db'.transaction :
             LET old == db.transaction[t]
                 new == db'.transaction[t]
             IN  /\ \A x \in DOMAIN db.transaction \ {t} : db'.transaction[x] = db.transaction[x]
                 /\ DOMAIN db'.budget_category = DOMAIN db.budget_category
                 /\ \A c \in DOMAIN db.budget_category :
                        db'.budget_category[c] =
                           [db.budget_category[c] EXCEPT
                              !.available_amount = @ + ExpenseOn(old, c) - ExpenseOn(new, c)]]_vars

(* A transaction moved to the second category after its amount was raised: *)
(* the first category is whole again, the second carries the new amount.   *)
C24_Witness ==
    /\ last.op = "update_transaction" /\ last.status = 200
    /\ DOMAIN db.transaction = {1}
    /\ db.transaction[1].category_id = 2
    /\ db.transaction[1].transaction_type = "expense"
    /\ db.transaction[1].amount = 200
    /\ {1, 2} \subseteq DOMAIN db.budget_category
    /\ AvailableOf(db, 1) = db.budget_category[1].allocated_amount
    /\ AvailableOf(db, 2) = db.budget_category[2].allocated_amount - 200

(* ---------------------------------------------------------------------- *)
(* Recompute: idempotence.                                                 *)
(* ---------------------------------------------------------------------- *)

(* Expense amounts of the rows 1..n linked to category c and dated in the  *)
(* month of now.                                                           *)
RECURSIVE SpentInMonth(_, _, _, _)
SpentInMonth(d, c, now, n) ==
    IF n = 0 THEN 0
    ELSE SpentInMonth(d, c, now, n - 1)
         + (IF /\ n \in DOMAIN d.transaction
               /\ d.transaction[n].category_id = c
               /\ d.transaction[n].transaction_type = "expense"
               /\ d.transaction[n].transaction_date[1] = now[1]
               /\ d.transaction[n].transaction_date[2] = now[2]
            THEN d.transaction[n].amount
            ELSE 0)

RecomputeWindows == {StartDate, LastMonthDate}

(* C25: for every category and window, one recompute stores allocated      *)
(* minus the linked expenses dated inside the window and changes nothing   *)
(* else, and a second and a third recompute in a row change nothing.       *)
C25_RecomputeIdempotent ==
    \A c \in DOMAIN db.budget_category : \A now \in RecomputeWindows :
       LET once == Recomputed(db, {c}, now)
           twice == Recomputed(once, {c}, now)
           thrice == Recomputed(twice, {c}, now)
       IN  /\ once = [db EXCEPT !.budget_category[c].available_amount =
                         db.budget_category[c].allocated_amount
                         - SpentInMonth(db, c, now, MaxOf(DOMAIN db.transaction))]
           /\ twice = once
           /\ thrice = once

(* A category whose stored balance has drifted from the recomputed one and *)
(* that has an expense inside the current month and one outside it.        *)
C25_Witness ==
    \E c \in DOMAIN db.budget_category :
       /\ AvailableOf(db, c) # update_available_amount(db, c, today)
       /\ \E i, j \in DOMAIN db.transaction :
             /\ db.transaction[i].category_id = c /\ db.transaction[j].category_id = c
             /\ db.transaction[i].transaction_type = "expense"
             /\ db.transaction[j].transaction_type = "expense"
             /\ db.transaction[i].transaction_date = today
             /\ db.transaction[j].transaction_date = LastMonthDate

(* ---------------------------------------------------------------------- *)
(* SpecBacklog: user 1 keeps one recurring transaction whose anchor lies   *)
(* in the past (more than 365 periods back for each of the four periods,   *)
(* the two daily anchors on either side of the limit, and a few recent     *)
(* ones), stops it, re-arms it without a period, and the service runs over *)
(* it until it has caught up.                                              *)
(* ---------------------------------------------------------------------- *)
BacklogAnchors ==
    {<<"daily", <<2023, 4, 10>>, "d376">>, <<"daily", <<2023, 4, 20>>, "d366">>,
     <<"daily", <<2023, 4, 21>>, "d365">>, <<"daily", <<2024, 4, 15>>, "d5">>,
     <<"daily", <<2024, 4, 20>>, "d0">>,
     <<"weekly", <<2017, 1, 1>>, "w381">>, <<"weekly", <<2024, 3, 1>>, "w7">>,
     <<"monthly", <<1990, 1, 31>>, "m410">>, <<"monthly", <<2024, 1, 31>>, "m2">>,
     <<"yearly", <<1650, 2, 28>>, "y374">>, <<"yearly", <<2020, 2, 29>>, "y4">>,
     <<"daily", <<2024, 4, 18>>, "d2">>, <<"weekly", <<2024, 4, 13>>, "w1">>,
     <<"monthly", <<2023, 12, 31>>, "m3">>, <<"yearly", <<2023, 4, 20>>, "y1">>}

Seeds(d) == {x \in DOMAIN d.transaction : d.transaction[x].description \in {a[3] : a \in BacklogAnchors}}

BacklogBounds(d) == \A s, t \in Seeds(d) : s = t

Backlog(o) ==
    /\ BacklogBounds(o.db)
    /\ db' = o.db
    /\ last' = o.resp
    /\ UNCHANGED <<today, calendar, sessions>>

BacklogCreates ==
    {<<1, [Recurring(a[1], a[2], NoCategory) EXCEPT !.description = a[3]]>> : a \in BacklogAnchors}

BacklogUpdates == {<<1, t, Rearm("")>> : t \in 1..2}

BacklogStops == {<<1, t>> : t \in 1..2}

AddBacklog == \E r \in BacklogCreates : Backlog(create_transaction(db, today, r[1], r[2]))

RearmBacklog == \E r \in BacklogUpdates : Backlog(update_transaction(db, r[1], r[2], r[3]))

StopBacklog == \E r \in BacklogStops : Backlog(stop_recurring_transaction(db, r[1], r[2]))

RunBacklog ==
    \E dry_run \in BOOLEAN :
       Backlog(InOwnContext(db, process_all_recurring_transactions(db, today, dry_run)))

NextBacklog ==
    \/ AddBacklog
    \/ RearmBacklog
    \/ StopBacklog
    \/ RunBacklog

SpecBacklog == Init /\ [][NextBacklog]_vars

OccurrencesOf(template, before, after) ==
    {x \in DOMAIN after.transaction \ DOMAIN before.transaction :
        /\ after.transaction[x].user_id = template.user_id
        /\ after.transaction[x].description = template.description \o " (Auto-generated)"}

(* C26: every run of the service returns, and in one run no template       *)
(* produces more than 365 occurrences, whatever its anchor and period: the *)
(* counting loop of every template has stopped after at most 366           *)
(* evaluations, the rows added for one template number at most 365, every *)
(* added row belongs to a template, and the count reported is at most 365  *)
(* per template.                                                           *)
C26_CatchUpBounded ==
    [][last'.op = "process_all_recurring_transactions" =>
          LET templates == RecurringTemplates(db) IN
          /\ last'.status = Returned
          /\ \A t \in templates :
                IsPeriod(db.transaction[t].recurring_period) =>
                   ~CatchUp(db.transaction[t].transaction_date, db.transaction[t].recurring_period,
                            today, 0).running
          /\ \A t \in templates :
                Cardinality(OccurrencesOf(db.transaction[t], db, db')) <= SafetyLimit
          /\ DOMAIN db'.transaction \ DOMAIN db.transaction =
                UNION {OccurrencesOf(db.transaction[t], db, db') : t \in templates}
          /\ last'.created_count <= SafetyLimit * Cardinality(templates)
          /\ last'.created_count + last'.errors <= SafetyLimit * Cardinality(templates)]_vars

(* A run has just created exactly 365 occurrences for a template that is   *)
(* still due afterwards: the limit cut the catch-up short.                 *)
C26_Witness ==
    /\ last.op = "process_all_recurring_transactions"
    /\ last.created_count = SafetyLimit
    /\ Cardinality(DOMAIN db.transaction) = SafetyLimit + 1
    /\ \E t \in RecurringTemplates(db) :
          /\ IsPeriod(db.transaction[t].recurring_period)
          /\ should_create_occurrence(db.transaction[t].transaction_date,
                                      db.transaction[t].recurring_period, today)

(* ---------------------------------------------------------------------- *)
(* The session's unit of work: what a flush writes.                        *)
(* ---------------------------------------------------------------------- *)

(* UPDATE sets the columns the handler changed to the values it holds.     *)
MergeRow(cur, base, view) == [f \in DOMAIN view |-> IF view[f] # base[f] THEN view[f] ELSE cur[f]]

RECURSIVE InsertAll(_, _)
InsertAll(table, rows) ==
    IF rows = <<>> THEN table ELSE InsertAll(Insert(table, Head(rows)), Tail(rows))

(* Rows deleted in memory are deleted, rows changed in memory are updated  *)
(* column by column, rows added in memory are inserted under fresh ids.    *)
FlushTable(cur, base, view) ==
    LET deleted == DOMAIN base \ DOMAIN view
        added == SeqOfSet(DOMAIN view \ DOMAIN base)
        kept == [i \in DOMAIN cur \ deleted |->
                    IF i \in DOMAIN base /\ i \in DOMAIN view
                    THEN MergeRow(cur[i], base[i], view[i])
                    ELSE cur[i]]
    IN  InsertAll(kept, [k \in 1..Len(added) |-> view[added[k]]])

(* StaleDataError: a row to update or delete is no longer there.           *)
StaleTable(cur, base, view) ==
    \E i \in DOMAIN base \ DOMAIN cur : i \notin DOMAIN view \/ view[i] # base[i]

Stale(d, base, view) ==
    \/ StaleTable(d.transaction, base.transaction, view.transaction)
    \/ StaleTable(d.budget_category, base.budget_category, view.budget_category)

Flush(d, base, view) ==
    [d EXCEPT !.transaction = FlushTable(@, base.transaction, view.transaction),
              !.budget_category = FlushTable(@, base.budget_category, view.budget_category)]

(* The rows as a session that holds uncommitted changes reads them.        *)
SessionView(d, s) == IF s.pc = "idle" THEN d ELSE Flush(d, s.base, s.view)

(* ---------------------------------------------------------------------- *)
(* SpecDryRun: the recurring transactions of SpecRecurring, all with valid *)
(* periods, and a caller that makes dry and real runs of the service in    *)
(* one application context (session 1) until the context is torn down.     *)
(* Requests that add rows are served at any time; the endpoint that moves  *)
(* the templates' dates is served while the caller's session holds         *)
(* nothing, so that the session never holds an unchanged row that is out   *)
(* of date.                                                                *)
(* ---------------------------------------------------------------------- *)
ServiceSession == 1

ServiceIdle == sessions[ServiceSession].pc = "idle"

ServiceDryRun ==
    LET s == sessions[ServiceSession]
        before == SessionView(db, s)
        o == process_all_recurring_transactions(before, today, TRUE)
    IN  /\ db' = db
        /\ last' = o.resp
        /\ sessions' = [sessions EXCEPT ![ServiceSession] =
                           IF o.db = db THEN IdleSession
                           ELSE [pc |-> "dirty", base |-> db, view |-> o.db,
                                 request |-> <<>>, resp |-> o.resp]]
        /\ UNCHANGED <<today, calendar>>

(* A real run commits after each template it created occurrences for, and  *)
(* the commit writes everything the session holds.                         *)
ServiceRun ==
    LET s == sessions[ServiceSession]
        o == process_all_recurring_transactions(SessionView(db, s), today, FALSE)
    IN  /\ last' = o.resp
        /\ IF o.resp.created_count > 0
           THEN /\ ScheduleBounds(o.db)
                /\ db' = o.db
                /\ sessions' = [sessions EXCEPT ![ServiceSession] = IdleSession]
           ELSE UNCHANGED <<db, sessions>>
        /\ UNCHANGED <<today, calendar>>

(* Teardown of the application context removes the session.                *)
RemoveSession ==
    /\ ~ServiceIdle
    /\ sessions' = [sessions EXCEPT ![ServiceSession] = IdleSession]
    /\ last' = Response("teardown_appcontext", 0, Returned, 0)
    /\ UNCHANGED <<db, today, calendar>>

NextDryRun ==
    \/ AddCategory
    \/ AddRecurring
    \/ ServiceIdle /\ ProcessRecurring
    \/ ServiceDryRun
    \/ ServiceRun
    \/ RemoveSession

SpecDryRun == Init /\ [][NextDryRun]_vars

(* C27: a dry run, of the service or of the endpoint, reports the dates a  *)
(* real run from the same rows would create, creates no transaction, and   *)
(* leaves every template's transaction_date and every category as the      *)
(* caller's session read them before the call.                             *)
C27_DryRunFrame ==
    [][(last'.dry_run /\ last'.op \in {"process_all_recurring_transactions",
                                        "process_recurring_transactions"}) =>
          LET before == SessionView(db, sessions[ServiceSession])
              after == SessionView(db', sessions'[ServiceSession])
              real == IF last'.op = "process_all_recurring_transactions"
                      THEN process_all_recurring_transactions(before, today, FALSE)
                      ELSE process_recurring_transactions(before, today, last'.user_id, FALSE)
          IN  /\ last'.created_transactions = real.resp.created_transactions
              /\ db' = db
              /\ DOMAIN after.transaction = DOMAIN before.transaction
              /\ after.budget_category = before.budget_category
              /\ \A t \in RecurringTemplates(before) :
                    after.transaction[t].transaction_date = before.transaction[t].transaction_date]_vars

(* ---------------------------------------------------------------------- *)
(* Two workers serving at the same time.  A handler reads the rows it      *)
(* needs, changes them in memory and commits; between the read and the     *)
(* commit the other worker may read or commit.  Nothing in the code locks  *)
(* a row or checks a version.                                              *)
(* ---------------------------------------------------------------------- *)
Handle(d, now, request) ==
    CASE request.op = "create_transaction" ->
            create_transaction(d, now, request.user_id, request.data)
      [] request.op = "delete_transaction" ->
            delete_transaction(d, request.user_id, request.transaction_id)
      [] request.op = "transfer_budget" ->
            transfer_budget(d, now, request.user_id, request.data)
      [] request.op = "process_all_recurring_transactions" ->
            process_all_recurring_transactions(d, now, FALSE)

(* The handler runs up to its commit; one that returns or finds nothing to *)
(* write before that answers at once.                                      *)
Begin(w, request) ==
    LET o == Handle(db, today, request) IN
    /\ sessions[w].pc = "idle"
    /\ IF o.db = db
       THEN /\ last' = o.resp
            /\ UNCHANGED sessions
       ELSE /\ sessions' = [sessions EXCEPT ![w] =
                               [pc |-> "loaded", base |-> db, view |-> o.db,
                                request |-> request, resp |-> o.resp]]
            /\ UNCHANGED last
    /\ UNCHANGED <<db, today, calendar>>

(* db.session.commit(): the flush writes what the handler holds; a row     *)
(* that has gone raises, and the handler rolls back and answers 500.       *)
Committed(d, s) ==
    IF Stale(d, s.base, s.view)
    THEN Outcome(d, [s.resp EXCEPT !.status = 500])
    ELSE Outcome(Flush(d, s.base, s.view), s.resp)

Commits(w) == sessions[w].pc = "loaded" /\ sessions'[w].pc = "idle"

(* ---------------------------------------------------------------------- *)
(* SpecRace: one recurring transaction of user 1, and two workers that     *)
(* each make real runs of the service over it.                             *)
(* ---------------------------------------------------------------------- *)
RaceAnchors ==
    {<<"daily", <<2024, 4, 18>>>>, <<"daily", <<2024, 4, 19>>>>, <<"daily", <<2024, 4, 20>>>>,
     <<"weekly", <<2024, 4, 6>>>>, <<"weekly", <<2024, 4, 10>>>>, <<"weekly", <<2024, 4, 13>>>>,
     <<"monthly", <<2024, 1, 31>>>>, <<"monthly", <<2024, 2, 15>>>>, <<"monthly", <<2024, 3, 20>>>>,
     <<"yearly", <<2022, 4, 20>>>>, <<"yearly", <<2023, 4, 21>>>>, <<"yearly", <<2024, 2, 29>>>>}

RaceCreates == {<<1, Recurring(a[1], a[2], NoCategory)>> : a \in RaceAnchors}

RunRequest == [op |-> "process_all_recurring_transactions"]

AddRaceTemplate ==
    /\ db.transaction = <<>>
    /\ \E r \in RaceCreates :
          LET o == create_transaction(db, today, r[1], r[2]) IN
          /\ db' = o.db
          /\ last' = o.resp
    /\ UNCHANGED <<today, calendar, sessions>>

BeginRun(w) == Begin(w, RunRequest)

CommitRun(w) ==
    /\ sessions[w].pc = "loaded"
    /\ db' = Committed(db, sessions[w]).db
    /\ last' = Committed(db, sessions[w]).resp
    /\ sessions' = [sessions EXCEPT ![w] = IdleSession]
    /\ UNCHANGED <<today, calendar>>

NextRace ==
    \/ AddRaceTemplate
    \/ \E w \in Workers : BeginRun(w)
    \/ \E w \in Workers : CommitRun(w)

SpecRace == Init /\ [][NextRace]_vars

OccurrenceRows(d) == DOMAIN d.transaction \ RecurringTemplates(d)

(* C28: whatever the interleaving of the two runs, no two occurrences of   *)
(* the template carry the same date, and once occurrences exist the        *)
(* template's transaction_date is the latest of their dates and no further *)
(* occurrence is due.                                                      *)
C28_OncePerDueDate ==
    /\ \A x, y \in OccurrenceRows(db) :
          x # y => db.transaction[x].transaction_date # db.transaction[y].transaction_date
    /\ \A t \in RecurringTemplates(db) :
          OccurrenceRows(db) # {} =>
             /\ ~should_create_occurrence(db.transaction[t].transaction_date,
                                          db.transaction[t].recurring_period, today)
             /\ \E x \in OccurrenceRows(db) :
                   db.transaction[x].transaction_date = db.transaction[t].transaction_date
             /\ \A x \in OccurrenceRows(db) :
                   DateLE(db.transaction[x].transaction_date, db.transaction[t].transaction_date)

(* ---------------------------------------------------------------------- *)
(* SpecContention: user 1 has two categories and expenses on the first;    *)
(* two workers serve creates, deletes and transfers that touch the first   *)
(* category.  A session that has committed keeps its request until both    *)
(* workers have answered; categories and the first expenses are set up     *)
(* while both are idle.                                                    *)
(* ---------------------------------------------------------------------- *)
ContentionRequests ==
    {[op |-> "create_transaction", user_id |-> 1, data |-> [BaseCreate EXCEPT !.category_id = 1]],
     [op |-> "transfer_budget", user_id |-> 1,
      data |-> [from_category_id |-> 1, to_category_id |-> 2, amount |-> <<"1">>]]}
    \cup {[op |-> "delete_transaction", user_id |-> 1, transaction_id |-> t] : t \in TransactionIds}

AllIdle == \A w \in Workers : sessions[w].pc = "idle"

BeginRequest(w) == \E request \in ContentionRequests : Begin(w, request)

CommitRequest(w) ==
    /\ sessions[w].pc = "loaded"
    /\ WithinBounds(Committed(db, sessions[w]).db)
    /\ db' = Committed(db, sessions[w]).db
    /\ last' = Committed(db, sessions[w]).resp
    /\ sessions' = [sessions EXCEPT ![w].pc = "done"]
    /\ UNCHANGED <<today, calendar>>

Answered ==
    /\ \A w \in Workers : sessions[w].pc # "loaded"
    /\ \E w \in Workers : sessions[w].pc = "done"
    /\ sessions' = NoSessions
    /\ last' = Response("teardown_appcontext", 0, Returned, 0)
    /\ UNCHANGED <<db, today, calendar>>

NextContention ==
    \/ AllIdle /\ CreateCategory(LedgerCategories)
    \/ AllIdle /\ CreateTransaction({<<1, [BaseCreate EXCEPT !.category_id = 1]>>})
    \/ \E w \in Workers : BeginRequest(w)
    \/ \E w \in Workers : CommitRequest(w)
    \/ Answered

SpecContention == Init /\ [][NextContention]_vars

Balances(d) == [c \in DOMAIN d.budget_category |-> d.budget_category[c].available_amount]

Serial(d, first, second) == Handle(Handle(d, today, first).db, today, second).db

(* C29: when two operations that both read the same rows have both         *)
(* committed, every category's available amount is the one that running    *)
(* them one after the other, in one order or the other, leaves.            *)
C29_NoLostUpdate ==
    (/\ \A w \in Workers : sessions[w].pc = "done"
     /\ sessions[1].base = sessions[2].base)
    => \/ Balances(db) = Balances(Serial(sessions[1].base, sessions[1].request, sessions[2].request))
       \/ Balances(db) = Balances(Serial(sessions[1].base, sessions[2].request, sessions[1].request))

(* ---------------------------------------------------------------------- *)
(* Recurring flag and period.                                              *)
(* ---------------------------------------------------------------------- *)

(* C30: every stored transaction whose recurring flag is set has a period  *)
(* that is a key of period_mapping, and no run of the service or of the    *)
(* endpoint fails on a template's period.                                  *)
C30_RecurringHasPeriod ==
    /\ \A t \in DOMAIN db.transaction :
          db.transaction[t].recurring => IsPeriod(db.transaction[t].recurring_period)
    /\ last.op = "process_all_recurring_transactions" => last.errors = 0
    /\ last.op = "process_recurring_transactions" => last.status = 200
====
